---- MODULE Spec2Model ----
(***************************************************************************)
(* Model of the table reconciliation of ARGO-DeepMSI                       *)
(* (scripts/process.py): clean_tables and the pipeline around it, the      *)
(* split by site, and the feature lookup of scripts/2.preprocess_eval.py   *)
(* (find_feature_file, add_feature_paths).                                 *)
(*                                                                         *)
(* A pandas DataFrame is a record [cols, rows]: the set of column names    *)
(* and the sequence of rows, each row a function from the column names to  *)
(* the cell values.  A missing cell (NaN / None / pd.NA) is the value NA.  *)
(***************************************************************************)
EXTENDS Integers, Sequences, FiniteSets, TLC

\* ---------------------------------------------------------------- bounds
MaxPatients == 2
MaxSlides == 2
MaxRecords == 2

MaxEntries == 2

\* ------------------------------------------------------------ value sets
NA == "<missing>"
PatientIds == {"P1", "P2"}
Statuses == {"MSI-H", "MSS", NA}
Filenames == {"s1", "s2"}
Sites == {"siteA"}

ColumnValues(c) ==
    CASE c = "PATIENT"  -> PatientIds
      [] c = "isMSIH"   -> Statuses
      [] c = "FILENAME" -> Filenames
      [] c = "SITE"     -> Sites

AllValues == PatientIds \cup Statuses \cup Filenames \cup Sites

RowsOver(cols) ==
    {r \in [cols -> AllValues] : \A c \in cols : r[c] \in ColumnValues(c)}

SeqsUpTo(S, n) == UNION {[1..k -> S] : k \in 0..n}

DataFrame(cols, rows) == [cols |-> cols, rows |-> rows]

EmptyFrame == DataFrame({}, <<>>)

ClinicalColumnSets == {{"PATIENT", "isMSIH"}, {"PATIENT"}, {"isMSIH"}}

SlideColumnSets ==
    {{"PATIENT", "FILENAME", "SITE"}, {"PATIENT", "FILENAME"},
     {"PATIENT", "SITE"}, {"FILENAME", "SITE"}}

ClinicalInputs ==
    UNION {{DataFrame(cs, rs) : rs \in SeqsUpTo(RowsOver(cs), MaxPatients)} :
           cs \in ClinicalColumnSets}

SlideInputs ==
    UNION {{DataFrame(cs, rs) : rs \in SeqsUpTo(RowsOver(cs), MaxSlides)} :
           cs \in SlideColumnSets}

\* The end-to-end scenario of the specification (section 8).
PatientRow(p, m) == [c \in {"PATIENT", "isMSIH"} |-> IF c = "PATIENT" THEN p ELSE m]

SlideRow(p, f, s) ==
    [c \in {"PATIENT", "FILENAME", "SITE"} |->
        IF c = "PATIENT" THEN p ELSE IF c = "FILENAME" THEN f ELSE s]

ScenarioClinical ==
    DataFrame({"PATIENT", "isMSIH"},
              <<PatientRow("P1", "MSI-H"), PatientRow("P2", "MSS"), PatientRow("P3", NA)>>)

ScenarioSlides ==
    DataFrame({"PATIENT", "FILENAME", "SITE"},
              <<SlideRow("P1", "s1", "siteA"), SlideRow("P2", "s2", "siteA"),
                SlideRow("P4", "s3", "siteB")>>)

\* ------------------------------------------------------- pandas operators
Len0(t) == Len(t.rows)

\* DataFrame.dropna(subset=[col])
dropna(t, col) == DataFrame(t.cols, SelectSeq(t.rows, LAMBDA r : r[col] # NA))

\* set(t[col].unique())
unique(t, col) == {t.rows[i][col] : i \in DOMAIN t.rows}

\* t[t[col].isin(S)]
isin(t, col, S) == DataFrame(t.cols, SelectSeq(t.rows, LAMBDA r : r[col] \in S))

\* t[col].value_counts(): the non-missing values with their counts
value_counts(t, col) ==
    {<<v, Cardinality({i \in DOMAIN t.rows : t.rows[i][col] = v})>> :
        v \in unique(t, col) \ {NA}}

Line(msg, a, b) == [msg |-> msg, a |-> a, b |-> b]

MsgCleaning == "Cleaning data tables"
MsgInitial == "Initial counts"
MsgMissingStatus == "Removed patients with missing MSI status"
MsgOrphanSlides == "Removed slides for patients without MSI status"
MsgNoSlides == "Removed patients without slides"
MsgFinal == "Final counts"

\* ------------------------------------------------------------------ state
VARIABLES
    clinical_table,       \* argument of clean_tables
    slide_table,          \* argument of clean_tables
    clinical,             \* local copy being filtered
    slides,               \* local copy being filtered
    valid_patients,       \* local set of step 2
    patients_with_slides, \* local set of step 4
    dropped_clinical,     \* local counter (steps 1 and 4)
    dropped_slides,       \* local counter (step 3)
    out,                  \* lines printed by clean_tables so far
    ret,                  \* <<>> or the returned pair
    pc,                   \* position inside clean_tables
    run,                  \* 1: first call, 2: call on its own output
    main_pc,              \* position inside __main__, "direct" outside it
    files,                \* the table files written so far
    fs,                   \* the tree under features_base_dir
    ff,                   \* <<>> or the last call of find_feature_file
    result,               \* add_feature_paths: local copy being annotated
    idx,                  \* add_feature_paths: row the loop is at
    feature_count,        \* add_feature_paths: local counter
    listdir_log,          \* sites whose feature root os.listdir was called on
    sites,                \* split_tables_by_site: local array of sites
    split_tables,         \* split_tables_by_site: local dictionary
    site_idx,             \* split_tables_by_site: site the loop is at
    requests,             \* status codes of the REDCap requests made so far
    redcap_data,          \* the frame fetch_redcap_data returned
    merged_data,          \* the local merged frame of the histogram functions
    tables2,              \* the tables written to tables/2, by file name
    msi_data              \* argument of process_prospective

feature_vars == <<fs, ff, result, idx, feature_count, listdir_log>>

split_vars == <<sites, split_tables, site_idx>>

report_vars == <<requests, redcap_data, merged_data, tables2, msi_data>>

vars == <<clinical_table, slide_table, clinical, slides, valid_patients,
          patients_with_slides, dropped_clinical, dropped_slides, out, ret,
          pc, run, main_pc, files, feature_vars, split_vars, report_vars>>

\* add_feature_paths and find_feature_file are not running.
FeatureIdle ==
    /\ fs = <<>>
    /\ ff = <<>>
    /\ result = <<>>
    /\ idx = 0
    /\ feature_count = 0
    /\ listdir_log = <<>>

\* split_tables_by_site is not running.
SplitIdle ==
    /\ sites = <<>>
    /\ split_tables = <<>>
    /\ site_idx = 0

\* No request made, no histogram function running, nothing in tables/2.
ReportIdle ==
    /\ requests = <<>>
    /\ redcap_data = <<>>
    /\ merged_data = <<>>
    /\ tables2 = <<>>
    /\ msi_data = <<>>

\* ------------------------------------------- the expressions of clean_tables
\* Variants of the expressions below, each changed the way a slip in that line
\* would change it; the properties further down are checked against them too.
DropMissingStatus_KeepAll(c) == c

DropMissingStatus_Fill(c) ==
    DataFrame(c.cols,
              [i \in DOMAIN c.rows |->
                  [c.rows[i] EXCEPT !["isMSIH"] = IF @ = NA THEN "MSS" ELSE @]])

ValidPatients_Unfiltered(c) == unique(clinical_table, "PATIENT")

SlidesOfValidPatients_KeepAll(s, vp) == s

PatientsWithSlides_Input(s) == unique(slide_table, "PATIENT")

ClinicalWithSlides_KeepAll(c, pws) == c

Dropped_Kept(before, after) == Len0(after)

ReportRemoved_Always(o, msg, n) == Append(o, Line(msg, n, 0))

\* line 275: clinical.dropna(subset=['isMSIH'])
DropMissingStatus(c) == dropna(c, "isMSIH")

\* line 281: set(clinical['PATIENT'].unique())
ValidPatients(c) == unique(c, "PATIENT")

\* line 285: slides[slides['PATIENT'].isin(valid_patients)]
SlidesOfValidPatients(s, vp) == isin(s, "PATIENT", vp)

\* line 291: set(slides['PATIENT'].unique())
PatientsWithSlides(s) == unique(s, "PATIENT")

\* line 293: clinical[clinical['PATIENT'].isin(patients_with_slides)]
ClinicalWithSlides(c, pws) == isin(c, "PATIENT", pws)

\* lines 276, 286, 294: initial count - len(filtered)
Dropped(before, after) == Len0(before) - Len0(after)

\* lines 277-278, 287-288, 295-296: if dropped > 0: print(...)
ReportRemoved(o, msg, n) == IF n > 0 THEN Append(o, Line(msg, n, 0)) ELSE o

\* Before clean_tables is called.
Init ==
    /\ clinical_table = EmptyFrame
    /\ slide_table = EmptyFrame
    /\ clinical = EmptyFrame
    /\ slides = EmptyFrame
    /\ valid_patients = {}
    /\ patients_with_slides = {}
    /\ dropped_clinical = 0
    /\ dropped_slides = 0
    /\ out = <<>>
    /\ ret = <<>>
    /\ pc = "idle"
    /\ run = 1
    /\ main_pc = "direct"
    /\ files = {}
    /\ FeatureIdle
    /\ SplitIdle
    /\ ReportIdle

\* line 256: clean_tables is called with a pair of tables
CallCleanTables ==
    /\ main_pc = "direct"
    /\ pc = "idle"
    /\ \/ /\ clinical_table' \in ClinicalInputs
          /\ slide_table' \in SlideInputs
       \/ /\ clinical_table' = ScenarioClinical
          /\ slide_table' = ScenarioSlides
    /\ pc' = "copy"
    /\ UNCHANGED <<clinical, slides, valid_patients, patients_with_slides,
                   dropped_clinical, dropped_slides, out, ret, run, main_pc, files>>
    /\ UNCHANGED <<feature_vars, split_vars>>
    /\ UNCHANGED report_vars

\* KeyError: the exception leaves clean_tables, nothing is returned.
Raise ==
    /\ pc' = "raised"
    /\ UNCHANGED <<clinical_table, slide_table, clinical, slides, valid_patients,
                   patients_with_slides, dropped_clinical, dropped_slides, out,
                   ret, run, main_pc, files>>

\* lines 266-271
CopyInputs ==
    /\ pc = "copy"
    /\ clinical' = clinical_table
    /\ slides' = slide_table
    /\ out' = out \o <<Line(MsgCleaning, 0, 0),
                       Line(MsgInitial, Len0(clinical_table), Len0(slide_table))>>
    /\ pc' = "step1"
    /\ UNCHANGED <<clinical_table, slide_table, valid_patients, patients_with_slides,
                   dropped_clinical, dropped_slides, ret, run, main_pc, files>>
    /\ UNCHANGED <<feature_vars, split_vars>>
    /\ UNCHANGED report_vars

\* lines 273-278
RemoveMissingStatus ==
    /\ pc = "step1"
    /\ IF "isMSIH" \notin clinical.cols
       THEN Raise
       ELSE LET kept == DropMissingStatus(clinical)
                n == Dropped(clinical, kept)
            IN /\ clinical' = kept
               /\ dropped_clinical' = n
               /\ out' = ReportRemoved(out, MsgMissingStatus, n)
               /\ pc' = "step2"
               /\ UNCHANGED <<clinical_table, slide_table, slides, valid_patients,
                              patients_with_slides, dropped_slides, ret, run, main_pc, files>>
    /\ UNCHANGED <<feature_vars, split_vars>>
    /\ UNCHANGED report_vars

\* line 281
GetValidPatients ==
    /\ pc = "step2"
    /\ IF "PATIENT" \notin clinical.cols
       THEN Raise
       ELSE /\ valid_patients' = ValidPatients(clinical)
            /\ pc' = "step3"
            /\ UNCHANGED <<clinical_table, slide_table, clinical, slides,
                           patients_with_slides, dropped_clinical, dropped_slides,
                           out, ret, run, main_pc, files>>
    /\ UNCHANGED <<feature_vars, split_vars>>
    /\ UNCHANGED report_vars

\* lines 284-288
RemoveOrphanSlides ==
    /\ pc = "step3"
    /\ IF "PATIENT" \notin slides.cols
       THEN Raise
       ELSE LET kept == SlidesOfValidPatients(slides, valid_patients)
                n == Dropped(slides, kept)
            IN /\ slides' = kept
               /\ dropped_slides' = n
               /\ out' = ReportRemoved(out, MsgOrphanSlides, n)
               /\ pc' = "step4"
               /\ UNCHANGED <<clinical_table, slide_table, clinical, valid_patients,
                              patients_with_slides, dropped_clinical, ret, run, main_pc, files>>
    /\ UNCHANGED <<feature_vars, split_vars>>
    /\ UNCHANGED report_vars

\* lines 291-296
KeepPatientsWithSlides ==
    /\ pc = "step4"
    /\ LET pws == PatientsWithSlides(slides)
           kept == ClinicalWithSlides(clinical, pws)
           n == Dropped(clinical, kept)
       IN /\ patients_with_slides' = pws
          /\ clinical' = kept
          /\ dropped_clinical' = n
          /\ out' = ReportRemoved(out, MsgNoSlides, n)
    /\ pc' = "step5"
    /\ UNCHANGED <<clinical_table, slide_table, slides, valid_patients,
                   dropped_slides, ret, run, main_pc, files>>
    /\ UNCHANGED <<feature_vars, split_vars>>
    /\ UNCHANGED report_vars

\* line 299
FinalSummary ==
    /\ pc = "step5"
    /\ out' = Append(out, Line(MsgFinal, Len0(clinical), Len0(slides)))
    /\ pc' = "step6"
    /\ UNCHANGED <<clinical_table, slide_table, clinical, slides, valid_patients,
                   patients_with_slides, dropped_clinical, dropped_slides, ret, run, main_pc, files>>
    /\ UNCHANGED <<feature_vars, split_vars>>
    /\ UNCHANGED report_vars

\* The lines of the distribution, most frequent status first; the order of
\* two statuses with the same count is whatever value_counts yields.
DistributionLines(t) ==
    LET vc == value_counts(t, "isMSIH")
    IN {ls \in [1..Cardinality(vc) -> {Line(e[1], e[2], Len0(t)) : e \in vc}] :
            /\ \A i, j \in DOMAIN ls : i # j => ls[i] # ls[j]
            /\ \A i, j \in DOMAIN ls : i < j => ls[i].a >= ls[j].a}

\* lines 302-307
DistributionAndReturn ==
    /\ pc = "step6"
    /\ IF Len0(clinical) # 0
       THEN \E ls \in DistributionLines(clinical) : out' = out \o ls
       ELSE out' = out
    /\ ret' = <<clinical, slides>>
    /\ pc' = "returned"
    /\ UNCHANGED <<clinical_table, slide_table, clinical, slides, valid_patients,
                   patients_with_slides, dropped_clinical, dropped_slides, run, main_pc, files>>
    /\ UNCHANGED <<feature_vars, split_vars>>
    /\ UNCHANGED report_vars

\* clean_tables called again on the pair it returned
CallOnOwnOutput ==
    /\ main_pc = "direct"
    /\ pc = "returned"
    /\ run = 1
    /\ clinical_table' = ret[1]
    /\ slide_table' = ret[2]
    /\ clinical' = EmptyFrame
    /\ slides' = EmptyFrame
    /\ valid_patients' = {}
    /\ patients_with_slides' = {}
    /\ dropped_clinical' = 0
    /\ dropped_slides' = 0
    /\ out' = out
    /\ ret' = <<>>
    /\ pc' = "copy"
    /\ run' = 2
    /\ UNCHANGED <<main_pc, files>>
    /\ UNCHANGED <<feature_vars, split_vars>>
    /\ UNCHANGED report_vars

Next ==
    \/ CallCleanTables
    \/ CopyInputs
    \/ RemoveMissingStatus
    \/ GetValidPatients
    \/ RemoveOrphanSlides
    \/ KeepPatientsWithSlides
    \/ FinalSummary
    \/ DistributionAndReturn
    \/ CallOnOwnOutput

Spec == Init /\ [][Next]_vars

\* ------------------------------------------------- the pipeline (__main__)
\* line 31: the only status fetch_redcap_data accepts
HttpOK == 200

HttpStatuses == {200, 500}

ResponseRaises_Never(status) == FALSE

\* lines 31-32: if response.status_code != 200: raise Exception(...)
ResponseRaises(status) == status # HttpOK

RedcapColumns ==
    {"record_id", "batch_number", "cmo_msi_status", "msi_status_mmr",
     "redcap_data_access_group"}

RedcapValues(c) ==
    CASE c = "record_id"      -> {"P1", "P2"}
      [] c = "batch_number"   -> {"1", "3"}
      [] c = "cmo_msi_status" -> {"Instable", NA}
      [] c = "msi_status_mmr" -> {"2", NA}
      [] c = "redcap_data_access_group" -> Sites

RedcapRows ==
    {[record_id |-> id, batch_number |-> b, cmo_msi_status |-> cmo,
      msi_status_mmr |-> mmr, redcap_data_access_group |-> g] :
        id \in RedcapValues("record_id"), b \in RedcapValues("batch_number"),
        cmo \in RedcapValues("cmo_msi_status"), mmr \in RedcapValues("msi_status_mmr"),
        g \in RedcapValues("redcap_data_access_group")}

\* lines 34-36: the records of the survey; no record gives a frame without columns
RedcapInputs ==
    {EmptyFrame} \cup
    UNION {{DataFrame(RedcapColumns, rs) : rs \in [1..k -> RedcapRows]} :
           k \in 1..MaxRecords}

MsiFromCmo_OnlyStable(v) ==
    CASE v = "Instable" -> "MSI-H"
      [] v = "Stable" -> "MSS"
      [] OTHER -> NA

\* lines 62-67
MsiFromCmo(v) ==
    CASE v = "Instable" -> "MSI-H"
      [] v \in {"Stable", "Indeterminate", "Stable, Indeterminate"} -> "MSS"
      [] OTHER -> NA

\* line 75
MsiFromMmr(v) ==
    CASE v = "1" -> "MSI-H"
      [] v = "2" -> "MSS"
      [] OTHER -> NA

\* Series.astype(str): a missing cell becomes the text of pd.NA
astype_str(v) == IF v = NA THEN "<NA>" ELSE v

ClinicalColumns == {"PATIENT", "isMSIH", "batch_number", "redcap_data_access_group"}

\* lines 61-69, 74-77: one selected, renamed row
ClinicalRow(r, msi) ==
    [c \in ClinicalColumns |->
        CASE c = "PATIENT" -> r["record_id"]
          [] c = "isMSIH"  -> msi
          [] OTHER         -> r[c]]

\* lines 39-83
create_cinical_table(data) ==
    LET prospective_data ==
            SelectSeq(data.rows,
                      LAMBDA r : r["batch_number"] # "1" /\ r["batch_number"] # "2")
        retrospective_data ==
            SelectSeq(data.rows,
                      LAMBDA r : r["batch_number"] = "1" \/ r["batch_number"] = "2")
        prospective_msi ==
            [i \in DOMAIN prospective_data |->
                ClinicalRow(prospective_data[i],
                            MsiFromCmo(prospective_data[i]["cmo_msi_status"]))]
        retrospective_msi ==
            [i \in DOMAIN retrospective_data |->
                ClinicalRow(retrospective_data[i],
                            MsiFromMmr(retrospective_data[i]["msi_status_mmr"]))]
        rows == prospective_msi \o retrospective_msi
    IN DataFrame(IF Len(rows) = 0 THEN {"PATIENT", "isMSIH"} ELSE ClinicalColumns,
                 [i \in DOMAIN rows |-> [rows[i] EXCEPT !["PATIENT"] = astype_str(@)]])

\* The Halo Link export after load_halo_link_data (lines 85-124): no file
\* gives a frame without columns; a loaded file always has the site column.
HaloColumnSets ==
    {{"redcap_id", "filename", "site"}, {"REDCap Id", "File Name", "site"},
     {"redcap_id", "site"}}

\* line 147: 'id' in col.lower() and 'redcap' in col.lower()
IsPatientIdColumn(c) == c \in {"redcap_id", "REDCap Id"}

\* line 148: 'name' in col.lower() or 'file' in col.lower()
IsFilenameColumn(c) == c \in {"filename", "File Name"}

HaloValues(c) ==
    IF IsPatientIdColumn(c) THEN {"P1", "P3", NA}
    ELSE IF IsFilenameColumn(c) THEN Filenames \cup {NA}
    ELSE Sites

HaloRows(cols) ==
    {r \in [cols -> UNION {HaloValues(c) : c \in cols}] :
        \A c \in cols : r[c] \in HaloValues(c)}

HaloInputs ==
    {EmptyFrame} \cup
    UNION {{DataFrame(cs, rs) : rs \in SeqsUpTo(HaloRows(cs), MaxSlides)} :
           cs \in HaloColumnSets}

\* lines 152-154, 159-161, 164-167: select, rename, drop missing, PATIENT as text
SlideRows(halo_data, pcol, fcol, cols) ==
    LET renamed ==
            [i \in DOMAIN halo_data.rows |->
                [c \in cols |->
                    CASE c = "PATIENT"  -> halo_data.rows[i][pcol]
                      [] c = "FILENAME" -> halo_data.rows[i][fcol]
                      [] c = "SITE"     -> halo_data.rows[i]["site"]]]
        kept == SelectSeq(renamed, LAMBDA r : r["PATIENT"] # NA /\ r["FILENAME"] # NA)
    IN [i \in DOMAIN kept |-> [kept[i] EXCEPT !["PATIENT"] = astype_str(@)]]

\* lines 126-169
create_slide_table(halo_data) ==
    LET patient_id_cols == {c \in halo_data.cols : IsPatientIdColumn(c)}
        filename_cols == {c \in halo_data.cols : IsFilenameColumn(c)}
    IN IF "redcap_id" \in halo_data.cols /\ "filename" \in halo_data.cols
       THEN DataFrame({"PATIENT", "FILENAME", "SITE"},
                      SlideRows(halo_data, "redcap_id", "filename",
                                {"PATIENT", "FILENAME", "SITE"}))
       ELSE IF patient_id_cols # {} /\ filename_cols # {}
       THEN DataFrame({"PATIENT", "FILENAME"},
                      SlideRows(halo_data,
                                CHOOSE c \in patient_id_cols : TRUE,
                                CHOOSE c \in filename_cols : TRUE,
                                {"PATIENT", "FILENAME"}))
       ELSE DataFrame({"PATIENT", "FILENAME"}, <<>>)

\* The slide files that may be on disk under the slide directories.
DiskFiles == {"s1.svs"}

\* line 211: os.path.abspath(os.path.join(root, file))
AbsPath(file) == CASE file = "s1.svs" -> "/data/s1.svs"

\* lines 214-215: file[:-4] for a file ending in .svs
WithoutSvs(file) == CASE file = "s1.svs" -> "s1" [] OTHER -> file

\* lines 199-215: found_files, as the set of <<key, path>> pairs
found_files(disk) ==
    {<<f, AbsPath(f)>> : f \in disk} \cup {<<WithoutSvs(f), AbsPath(f)>> : f \in disk}

\* lines 222-235 and 495: the slide_path that replaces FILENAME, None if not found
slide_path(filename, disk) ==
    IF \E e \in found_files(disk) : e[1] = filename
    THEN (CHOOSE e \in found_files(disk) : e[1] = filename)[2]
    ELSE IF \E e \in found_files(disk) : WithoutSvs(e[1]) = filename /\ e[1] # filename
    THEN (CHOOSE e \in found_files(disk) :
              WithoutSvs(e[1]) = filename /\ e[1] # filename)[2]
    ELSE NA

MainInit ==
    /\ clinical_table = EmptyFrame
    /\ slide_table = EmptyFrame
    /\ clinical = EmptyFrame
    /\ slides = EmptyFrame
    /\ valid_patients = {}
    /\ patients_with_slides = {}
    /\ dropped_clinical = 0
    /\ dropped_slides = 0
    /\ out = <<>>
    /\ ret = <<>>
    /\ pc = "idle"
    /\ run = 1
    /\ main_pc = "fetch"
    /\ files = {}
    /\ FeatureIdle
    /\ SplitIdle
    /\ ReportIdle

MainAbort ==
    /\ main_pc' = "aborted"
    /\ UNCHANGED <<clinical_table, slide_table, files>>

\* lines 474-482: fetch, extract the clinical table, save the full table
MainClinical ==
    /\ main_pc = "fetch"
    /\ \E status \in HttpStatuses, data \in RedcapInputs :
          /\ requests' = Append(requests, status)
          /\ IF ResponseRaises(status)
             THEN MainAbort
             ELSE IF "batch_number" \notin data.cols
             THEN MainAbort
             ELSE /\ clinical_table' = create_cinical_table(data)
                  /\ files' = files \cup {"clini_table_full.csv"}
                  /\ main_pc' = "halo"
                  /\ UNCHANGED slide_table
    /\ UNCHANGED <<clinical, slides, valid_patients, patients_with_slides,
                   dropped_clinical, dropped_slides, out, ret, pc, run>>
    /\ UNCHANGED <<feature_vars, split_vars, redcap_data, merged_data, tables2,
                   msi_data>>

\* lines 484-490
MainSlides ==
    /\ main_pc = "halo"
    /\ \E halo_data \in HaloInputs : slide_table' = create_slide_table(halo_data)
    /\ main_pc' = "verify"
    /\ UNCHANGED <<clinical_table, clinical, slides, valid_patients,
                   patients_with_slides, dropped_clinical, dropped_slides, out, ret,
                   pc, run, files>>
    /\ UNCHANGED <<feature_vars, split_vars>>
    /\ UNCHANGED report_vars

\* lines 492-498: FILENAME becomes the path found on disk, the full table is saved
MainVerify ==
    /\ main_pc = "verify"
    /\ \E disk \in SUBSET DiskFiles :
          slide_table' =
              DataFrame(slide_table.cols,
                        [i \in DOMAIN slide_table.rows |->
                            [slide_table.rows[i] EXCEPT
                                !["FILENAME"] = slide_path(@, disk)]])
    /\ files' = files \cup {"slide_table_full.csv"}
    /\ main_pc' = "clean"
    /\ UNCHANGED <<clinical_table, clinical, slides, valid_patients,
                   patients_with_slides, dropped_clinical, dropped_slides, out, ret,
                   pc, run>>
    /\ UNCHANGED <<feature_vars, split_vars>>
    /\ UNCHANGED report_vars

\* line 506: the call of clean_tables
MainCallClean ==
    /\ main_pc = "clean"
    /\ pc = "idle"
    /\ pc' = "copy"
    /\ UNCHANGED <<clinical_table, slide_table, clinical, slides, valid_patients,
                   patients_with_slides, dropped_clinical, dropped_slides, out, ret,
                   run, main_pc, files>>
    /\ UNCHANGED <<feature_vars, split_vars>>
    /\ UNCHANGED report_vars

\* lines 506-508: the returned pair replaces the tables and is saved
MainSaveCleaned ==
    /\ main_pc = "clean"
    /\ pc = "returned"
    /\ clinical_table' = ret[1]
    /\ slide_table' = ret[2]
    /\ files' = files \cup {"slide_table.csv", "clini_table.csv"}
    /\ main_pc' = "histograms"
    /\ pc' = "idle"
    /\ UNCHANGED <<clinical, slides, valid_patients, patients_with_slides,
                   dropped_clinical, dropped_slides, out, ret, run>>
    /\ UNCHANGED <<feature_vars, split_vars>>
    /\ UNCHANGED report_vars

NoSiteColumn_Never(t) == FALSE

\* lines 320 and 434: 'SITE' not in slide_table.columns
NoSiteColumn(t) == "SITE" \notin t.cols

\* pd.merge(left, right, on='PATIENT', how='inner'): a new frame, the rows of
\* left in their order, each joined with the rows of right of the same PATIENT
pd_merge(left, right) ==
    LET cols == left.cols \cup right.cols
        joined(l) ==
            LET matches == SelectSeq(right.rows, LAMBDA r : r["PATIENT"] = l["PATIENT"])
            IN [k \in DOMAIN matches |->
                   [c \in cols |-> IF c \in left.cols THEN l[c] ELSE matches[k][c]]]
        upto[i \in 0..Len(left.rows)] ==
            IF i = 0 THEN <<>> ELSE upto[i - 1] \o joined(left.rows[i])
    IN DataFrame(cols, upto[Len(left.rows)])

\* lines 354, 377, 399, 417: the charts generate_histograms saves
VisualizationFiles ==
    {"patient_count_by_site.png", "slide_count_by_site.png",
     "slides_per_patient.png", "overall_msi_distribution.png"}

\* line 512, generate_histograms (lines 309-421): nothing without a SITE
\* column; else the merged frame is charted.  Whether the plotting calls
\* accept a frame without rows is left open: they raise or they do not.
MainHistograms ==
    /\ main_pc = "histograms"
    /\ IF NoSiteColumn(slide_table)
       THEN /\ main_pc' = "split"
            /\ UNCHANGED <<files, merged_data>>
       ELSE /\ merged_data' = pd_merge(slide_table, clinical_table)
            /\ \/ /\ files' = files \cup VisualizationFiles
                  /\ main_pc' = "split"
               \/ /\ Len0(merged_data') = 0
                  /\ main_pc' = "aborted"
                  /\ UNCHANGED files
    /\ UNCHANGED <<clinical_table, slide_table, clinical, slides, valid_patients,
                   patients_with_slides, dropped_clinical, dropped_slides, out, ret,
                   pc, run, feature_vars, split_vars, requests, redcap_data,
                   tables2, msi_data>>

\* line 516: the call of split_tables_by_site
MainCallSplit ==
    /\ main_pc = "split"
    /\ pc = "idle"
    /\ pc' = "split_sites"
    /\ UNCHANGED <<clinical_table, slide_table, clinical, slides, valid_patients,
                   patients_with_slides, dropped_clinical, dropped_slides, out, ret,
                   run, main_pc, files, feature_vars, split_vars, report_vars>>

\* lines 518-519: the names of the two files of a site
SiteTableFiles(site) ==
    CASE site = "siteA" -> {"siteA_clinical_table.csv", "siteA_slide_table.csv"}
      [] site = "siteB" -> {"siteB_clinical_table.csv", "siteB_slide_table.csv"}

\* lines 516-522: the tables of every site of the returned dictionary are saved
MainSaveSites ==
    /\ main_pc = "split"
    /\ pc = "returned"
    /\ files' = files \cup UNION {SiteTableFiles(site) : site \in DOMAIN ret[1]}
    /\ main_pc' = "done"
    /\ UNCHANGED <<clinical_table, slide_table, clinical, slides, valid_patients,
                   patients_with_slides, dropped_clinical, dropped_slides, out, ret,
                   pc, run, feature_vars, split_vars, report_vars>>


\* ------------------------------------------------- the feature cache on disk
\* (scripts/2.preprocess_eval.py)

\* The variables of clean_tables and of the pipeline, at rest.
clean_vars == <<clinical_table, slide_table, clinical, slides, valid_patients,
                patients_with_slides, dropped_clinical, dropped_slides, out, ret,
                pc, run, main_pc, files>>

CleanIdle ==
    /\ clinical_table = EmptyFrame
    /\ slide_table = EmptyFrame
    /\ clinical = EmptyFrame
    /\ slides = EmptyFrame
    /\ valid_patients = {}
    /\ patients_with_slides = {}
    /\ dropped_clinical = 0
    /\ dropped_slides = 0
    /\ out = <<>>
    /\ ret = <<>>
    /\ pc = "idle"
    /\ run = 1
    /\ main_pc = "direct"
    /\ files = {}

\* Python's None
None == <<>>

\* The sites that have a directory name under features_base_dir.
FsSites == {"siteA", "siteB"}

\* line 29: the substrings a candidate directory name is tested for
CandidateMarkers == {"ctranspath", "xiyuewang"}

\* Names of the entries of a feature root; a name is the sequence of its
\* fragments, so that "contains" is a test on the name and not a table.
ItemNames == {<<"ctranspath">>, <<"feat_", "xiyuewang">>, <<"uni">>}

\* line 29: marker in item
Contains(item, marker) == \E i \in DOMAIN item : item[i] = marker

\* A file name is the sequence of its dot-separated parts: s1.svs is
\* <<"s1", "svs">>.  line 34: f"{base_filename}.h5"
h5_name(base_filename) == base_filename \o <<"h5">>

\* The feature files a directory of the cache may hold.
FeatureFiles == {<<"s1", "h5">>}

\* An entry of a feature root: a directory with the names it holds, or a
\* regular file.
Entries ==
    {[name |-> n, isdir |-> TRUE, files |-> fl] :
        n \in ItemNames, fl \in SUBSET FeatureFiles}
    \cup {[name |-> n, isdir |-> FALSE, files |-> {}] : n \in ItemNames}

\* os.listdir of a root: its entries in the order the system lists them, no
\* name twice.
Listings(n) ==
    {l \in SeqsUpTo(Entries, n) :
        \A i, j \in DOMAIN l : i # j => l[i].name # l[j].name}

\* features_base_dir/<site>/features: missing, a regular file, or a directory
AbsentRoot == [kind |-> "absent", listing |-> <<>>]

FileRoot == [kind |-> "file", listing |-> <<>>]

DirRoot(l) == [kind |-> "dir", listing |-> l]

Roots(n) == {AbsentRoot, FileRoot} \cup {DirRoot(l) : l \in Listings(n)}

\* The trees under features_base_dir with at most MaxEntries entries in the
\* feature roots altogether.
FsStates ==
    UNION {{("siteA" :> a) @@ ("siteB" :> b) :
                a \in Roots(k), b \in Roots(MaxEntries - k)} : k \in 0..MaxEntries}

\* A Python value that is a slide file name: the directory prefix and the
\* parts of the last component.
Str(dir, name) == [type |-> "str", dir |-> dir, name |-> name]

DirPrefixes == {"", "/data/slides"}

SlideNames == {<<"s1">>, <<"s1", "svs">>, <<"s1", "tif">>, <<"s2", "svs">>}

SlideFilenames == {Str(dir, n) : dir \in DirPrefixes, n \in SlideNames}

\* What a call yields: a returned value or an exception that leaves it.
Returns(v) == [raised |-> FALSE, value |-> v]

Raises == [raised |-> TRUE, value |-> None]

\* -------------------------------------- the expressions of find_feature_file
splitext_Keep(name) == name

IsFeatureDir_AnyDir(e) == e.isdir

FirstHit_Last(dirs, file) ==
    LET hits == {i \in DOMAIN dirs : file \in dirs[i].files}
    IN IF hits = {} THEN 0 ELSE CHOOSE i \in hits : \A j \in hits : i >= j

\* line 11: os.path.basename
basename(slide_filename) == slide_filename.name

\* line 12: os.path.splitext(...)[0]; the last part is an extension unless
\* only empty parts (leading dots) come before it
splitext(name) ==
    IF Len(name) >= 2 /\ \E i \in 1..(Len(name) - 1) : name[i] # ""
    THEN SubSeq(name, 1, Len(name) - 1)
    ELSE name

\* line 15: os.path.join(features_base_dir, site, 'features'), from
\* features_base_dir
site_path(site) == <<site, "features">>

\* line 20: os.path.exists(site_path)
exists_site_path(site, f) == f[site].kind # "absent"

\* line 29: os.path.isdir(item_path) and ('ctranspath' in item or 'xiyuewang' in item)
IsFeatureDir(e) == e.isdir /\ \E m \in CandidateMarkers : Contains(e.name, m)

\* lines 24-30: the candidate directories, in the order of os.listdir
feature_dirs(root) == SelectSeq(root.listing, IsFeatureDir)

\* lines 33-39: the first directory of feature_dirs that holds the file, 0
\* when none does
FirstHit(dirs, file) ==
    LET hits == {i \in DOMAIN dirs : file \in dirs[i].files}
    IN IF hits = {} THEN 0 ELSE CHOOSE i \in hits : \A j \in hits : i <= j

\* line 34: os.path.join(feature_dir, f"{base_filename}.h5")
h5_path(site, feature_dir, file) == site_path(site) \o <<feature_dir.name, file>>

\* lines 9-42; os.listdir (line 25) raises NotADirectoryError on a site_path
\* that exists and is no directory
find_feature_file(slide_filename, site, f) ==
    LET base_filename == splitext(basename(slide_filename))
    IN IF ~exists_site_path(site, f)
       THEN Returns(None)
       ELSE IF f[site].kind # "dir"
       THEN Raises
       ELSE LET dirs == feature_dirs(f[site])
                k == FirstHit(dirs, h5_name(base_filename))
            IN IF k = 0
               THEN Returns(None)
               ELSE Returns(h5_path(site, dirs[k], h5_name(base_filename)))

\* A tree under features_base_dir, no call made yet.
FindInit ==
    /\ CleanIdle
    /\ SplitIdle
    /\ fs \in FsStates
    /\ ff = <<>>
    /\ result = <<>>
    /\ idx = 0
    /\ feature_count = 0
    /\ listdir_log = <<>>
    /\ ReportIdle

\* line 9: find_feature_file is called
CallFind ==
    /\ \E slide_filename \in SlideFilenames, site \in FsSites :
          ff' = [slide_filename |-> slide_filename, site |-> site,
                 ret |-> find_feature_file(slide_filename, site, fs),
                 calls |-> 1, first |-> Raises]
    /\ UNCHANGED <<clean_vars, split_vars, fs, result, idx, feature_count, listdir_log>>
    /\ UNCHANGED report_vars

\* the same call made again on the same tree
CallFindAgain ==
    /\ ff # <<>>
    /\ ff.calls = 1
    /\ ff' = [ff EXCEPT !.ret = find_feature_file(ff.slide_filename, ff.site, fs),
                        !.calls = 2,
                        !.first = ff.ret]
    /\ UNCHANGED <<clean_vars, split_vars, fs, result, idx, feature_count, listdir_log>>
    /\ UNCHANGED report_vars

FindNext ==
    \/ CallFind
    \/ CallFindAgain

SpecFind == FindInit /\ [][FindNext]_vars

\* --------------------------------------------------------- add_feature_paths
\* A FILENAME cell that is missing (NaN), and one that is no string.
NaNFilename == [type |-> "float", dir |-> "", name |-> <<"nan">>]

IntFilename == [type |-> "int", dir |-> "", name |-> <<"7">>]

FilenameCells == {Str("/data/slides", <<"s1", "svs">>), NaNFilename, IntFilename}

SiteCells == FsSites \cup {NA}

AfpColumns == {"PATIENT", "FILENAME", "SITE"}

AfpRows ==
    {[c \in AfpColumns |->
         CASE c = "PATIENT" -> "P1"
           [] c = "FILENAME" -> f
           [] c = "SITE" -> s] : f \in FilenameCells, s \in SiteCells}

\* The slide tables add_feature_paths is called with.
AfpInputs == {DataFrame(AfpColumns, rows) : rows \in SeqsUpTo(AfpRows, MaxSlides)}

MsgFeatures == "Feature path addition complete"

MsgExample == "Example feature path"

\* lines 57-58: slide_table.copy() with the new column FEATURE_PATH = None
WithFeaturePath(t) ==
    DataFrame(t.cols \cup {"FEATURE_PATH"},
              [i \in DOMAIN t.rows |->
                  [c \in t.cols \cup {"FEATURE_PATH"} |->
                      IF c = "FEATURE_PATH" THEN None ELSE t.rows[i][c]]])

\* line 70: pd.isna(filename) or not isinstance(filename, str) or pd.isna(site)
SkipsRow(row) ==
    \/ row["FILENAME"] = NaNFilename
    \/ row["FILENAME"].type # "str"
    \/ row["SITE"] = NA

\* lines 81-86: the first three rows with a feature path, as printed
ExampleLines(t) ==
    LET found == SelectSeq(t.rows, LAMBDA r : r["FEATURE_PATH"] # None)
    IN [k \in 1..(IF Len(found) < 3 THEN Len(found) ELSE 3) |->
           Line(MsgExample, basename(found[k]["FILENAME"]), found[k]["FEATURE_PATH"])]

\* A tree under features_base_dir, add_feature_paths not called yet.
AfpInit == FindInit

\* lines 45-62
CallAddFeaturePaths ==
    /\ pc = "idle"
    /\ \E t \in AfpInputs :
          /\ slide_table' = t
          /\ result' = WithFeaturePath(t)
    /\ feature_count' = 0
    /\ idx' = 1
    /\ listdir_log' = <<>>
    /\ pc' = "afp_loop"
    /\ UNCHANGED <<clinical_table, clinical, slides, valid_patients,
                   patients_with_slides, dropped_clinical, dropped_slides, out, ret,
                   run, main_pc, files, fs, ff, split_vars>>
    /\ UNCHANGED report_vars

\* lines 65-76: one pass of the loop over the rows
AfpRow ==
    /\ pc = "afp_loop"
    /\ idx <= Len(result.rows)
    /\ LET row == result.rows[idx]
           feature_path == find_feature_file(row["FILENAME"], row["SITE"], fs)
       IN IF SkipsRow(row)
          THEN /\ idx' = idx + 1
               /\ UNCHANGED <<result, feature_count, listdir_log, pc>>
          ELSE /\ listdir_log' = IF exists_site_path(row["SITE"], fs)
                                 THEN Append(listdir_log, row["SITE"])
                                 ELSE listdir_log
               /\ IF feature_path.raised
                  THEN /\ pc' = "raised"
                       /\ UNCHANGED <<result, feature_count, idx>>
                  ELSE IF feature_path.value # None
                  THEN /\ result' = [result EXCEPT
                                        !.rows[idx]["FEATURE_PATH"] = feature_path.value]
                       /\ feature_count' = feature_count + 1
                       /\ idx' = idx + 1
                       /\ pc' = pc
                  ELSE /\ idx' = idx + 1
                       /\ UNCHANGED <<result, feature_count, pc>>
    /\ UNCHANGED <<clinical_table, slide_table, clinical, slides, valid_patients,
                   patients_with_slides, dropped_clinical, dropped_slides, out, ret,
                   run, main_pc, files, fs, ff, split_vars>>
    /\ UNCHANGED report_vars

\* lines 78-88: the summary, the examples, the return
AfpFinish ==
    /\ pc = "afp_loop"
    /\ idx > Len(result.rows)
    /\ out' = <<Line(MsgFeatures, feature_count, Len0(result) - feature_count)>>
                 \o ExampleLines(result)
    /\ ret' = result
    /\ pc' = "returned"
    /\ UNCHANGED <<clinical_table, slide_table, clinical, slides, valid_patients,
                   patients_with_slides, dropped_clinical, dropped_slides,
                   run, main_pc, files, feature_vars, split_vars>>
    /\ UNCHANGED report_vars

AfpNext ==
    \/ CallAddFeaturePaths
    \/ AfpRow
    \/ AfpFinish

SpecAfp == AfpInit /\ [][AfpNext]_vars

\* ------------------------------------------------------ split_tables_by_site
\* (scripts/process.py lines 423-468; scripts/2.preprocess_eval.py lines
\* 430-475 are the same function)
SplitSiteValues == {"siteA", "siteB", NA}

SplitSlideRows ==
    {[c \in {"PATIENT", "FILENAME", "SITE"} |->
         CASE c = "PATIENT" -> p
           [] c = "FILENAME" -> f
           [] c = "SITE" -> s] :
        p \in PatientIds, f \in Filenames, s \in SplitSiteValues}

\* The slide tables split_tables_by_site is called with: with a SITE column,
\* the site of a row possibly missing, or without that column.
SplitSlideInputs ==
    {DataFrame({"PATIENT", "FILENAME", "SITE"}, rows) :
        rows \in SeqsUpTo(SplitSlideRows, MaxSlides)}
    \cup {DataFrame({"PATIENT", "FILENAME"}, rows) :
             rows \in SeqsUpTo(RowsOver({"PATIENT", "FILENAME"}), MaxSlides)}

SplitClinicalRows ==
    {[c \in {"PATIENT", "isMSIH"} |-> IF c = "PATIENT" THEN p ELSE s] :
        p \in PatientIds, s \in Statuses \ {NA}}

SplitClinicalInputs ==
    {DataFrame({"PATIENT", "isMSIH"}, rows) :
        rows \in SeqsUpTo(SplitClinicalRows, MaxPatients)}

MsgNoSite == "ERROR: SITE column not found in slide_table. Cannot split tables by site."

MsgFound == "Found unique sites"

MsgSite == "Site"

MsgSitePatients == "Patients"

MsgSiteSlides == "Slides"

SiteSlides_All(t, site) == t

SiteClinical_All(t, site_patients) == t

\* line 439: slide_table['SITE'].unique(), the values in the order of their
\* first row, a missing site among them
unique_seq(t, col) ==
    LET firsts == {i \in DOMAIN t.rows :
                      \A j \in 1..(i - 1) : t.rows[j][col] # t.rows[i][col]}
        nth == [k \in 1..Cardinality(firsts) |->
                   CHOOSE i \in firsts : Cardinality({j \in firsts : j < i}) = k - 1]
    IN [k \in 1..Cardinality(firsts) |-> t.rows[nth[k]][col]]

\* line 440: ', '.join(sites) raises TypeError on an item that is no string
JoinRaises(items) == \E k \in DOMAIN items : items[k] = NA

\* line 448: slide_table[slide_table['SITE'] == site]; NaN == NaN is False
SiteSlides(t, site) ==
    DataFrame(t.cols, SelectSeq(t.rows, LAMBDA r : r["SITE"] # NA /\ r["SITE"] = site))

\* line 451: set(site_slides['PATIENT'].unique())
SitePatients(site_slides) == unique(site_slides, "PATIENT")

\* line 454: clinical_table[clinical_table['PATIENT'].isin(site_patients)]
SiteClinical(t, site_patients) == isin(t, "PATIENT", site_patients)

\* Before split_tables_by_site is called.
SplitInit ==
    /\ CleanIdle
    /\ FeatureIdle
    /\ SplitIdle
    /\ ReportIdle

\* line 423: the call
CallSplit ==
    /\ pc = "idle"
    /\ clinical_table' \in SplitClinicalInputs
    /\ slide_table' \in SplitSlideInputs
    /\ pc' = "split_sites"
    /\ UNCHANGED <<clinical, slides, valid_patients, patients_with_slides,
                   dropped_clinical, dropped_slides, out, ret, run, main_pc, files,
                   feature_vars, split_vars>>
    /\ UNCHANGED report_vars

\* lines 434-443: no SITE column: ({}, []); else the sites and the line that
\* names them
SplitFindSites ==
    /\ pc = "split_sites"
    /\ IF NoSiteColumn(slide_table)
       THEN /\ out' = <<Line(MsgNoSite, 0, 0)>>
            /\ ret' = << <<>>, <<>> >>
            /\ pc' = "returned"
            /\ UNCHANGED split_vars
       ELSE IF "SITE" \notin slide_table.cols
       THEN /\ pc' = "raised"
            /\ UNCHANGED <<out, ret, split_vars>>
       ELSE LET found == unique_seq(slide_table, "SITE")
            IN /\ sites' = found
               /\ IF JoinRaises(found)
                  THEN /\ pc' = "raised"
                       /\ UNCHANGED <<out, ret, split_tables, site_idx>>
                  ELSE /\ out' = <<Line(MsgFound, Len(found), found)>>
                       /\ split_tables' = <<>>
                       /\ site_idx' = 1
                       /\ pc' = "split_loop"
                       /\ UNCHANGED ret
    /\ UNCHANGED <<clinical_table, slide_table, clinical, slides, valid_patients,
                   patients_with_slides, dropped_clinical, dropped_slides,
                   run, main_pc, files, feature_vars>>
    /\ UNCHANGED report_vars

\* lines 446-466: one pass of the loop over the sites
SplitSite ==
    /\ pc = "split_loop"
    /\ site_idx <= Len(sites)
    /\ LET site == sites[site_idx]
           site_slides == SiteSlides(slide_table, site)
           site_patients == SitePatients(site_slides)
           site_clinical == SiteClinical(clinical_table, site_patients)
       IN /\ split_tables' = (site :> <<site_clinical, site_slides>>) @@ split_tables
          /\ \E ls \in DistributionLines(site_clinical) :
                out' = out \o <<Line(MsgSite, site, 0),
                                Line(MsgSitePatients, Len0(site_clinical), 0),
                                Line(MsgSiteSlides, Len0(site_slides), 0)>> \o ls
    /\ site_idx' = site_idx + 1
    /\ UNCHANGED <<clinical_table, slide_table, clinical, slides, valid_patients,
                   patients_with_slides, dropped_clinical, dropped_slides, ret, pc,
                   run, main_pc, files, feature_vars, sites>>
    /\ UNCHANGED report_vars

\* line 468
SplitReturn ==
    /\ pc = "split_loop"
    /\ site_idx > Len(sites)
    /\ ret' = <<split_tables, sites>>
    /\ pc' = "returned"
    /\ UNCHANGED <<clinical_table, slide_table, clinical, slides, valid_patients,
                   patients_with_slides, dropped_clinical, dropped_slides, out,
                   run, main_pc, files, feature_vars, split_vars>>
    /\ UNCHANGED report_vars

SplitNext ==
    \/ CallSplit
    \/ SplitFindSites
    \/ SplitSite
    \/ SplitReturn

SpecSplit == SplitInit /\ [][SplitNext]_vars

\* The pipeline of process.py (lines 471-522).
MainNext ==
    \/ MainClinical
    \/ MainSlides
    \/ MainVerify
    \/ MainCallClean
    \/ CopyInputs
    \/ RemoveMissingStatus
    \/ GetValidPatients
    \/ RemoveOrphanSlides
    \/ KeepPatientsWithSlides
    \/ FinalSummary
    \/ DistributionAndReturn
    \/ MainSaveCleaned
    \/ MainHistograms
    \/ MainCallSplit
    \/ SplitFindSites
    \/ SplitSite
    \/ SplitReturn
    \/ MainSaveSites

SpecMain == MainInit /\ [][MainNext]_vars

\* ------------------------------------------------------------ properties
Returned == pc = "returned"

\* What the input tables say, row by row (positions in the input tables).
MissingStatusRows(c) == {i \in DOMAIN c.rows : c.rows[i]["isMSIH"] = NA}

KnownStatusIds(c) ==
    {c.rows[i]["PATIENT"] : i \in DOMAIN c.rows \ MissingStatusRows(c)}

OrphanSlideRows(c, s) ==
    {j \in DOMAIN s.rows : s.rows[j]["PATIENT"] \notin KnownStatusIds(c)}

SurvivingSlideIds(c, s) ==
    {s.rows[j]["PATIENT"] : j \in DOMAIN s.rows \ OrphanSlideRows(c, s)}

SlidelessRows(c, s) ==
    {i \in DOMAIN c.rows \ MissingStatusRows(c) :
        c.rows[i]["PATIENT"] \notin SurvivingSlideIds(c, s)}

\* C1: every row of the returned Slide table has the PATIENT of some row of
\* the returned Patient table.
C1_NoDanglingSlide ==
    Returned =>
        \A j \in DOMAIN ret[2].rows :
            \E i \in DOMAIN ret[1].rows :
                ret[1].rows[i]["PATIENT"] = ret[2].rows[j]["PATIENT"]

\* a call that dropped an orphan slide and kept another one
C1_Witness ==
    /\ Returned
    /\ run = 1
    /\ Len0(ret[2]) > 0
    /\ Len0(ret[2]) < Len0(slide_table)

\* C2: every row of the returned Patient table is referenced by at least one
\* row of the returned Slide table.
C2_EveryPatientHasSlide ==
    Returned =>
        \A i \in DOMAIN ret[1].rows :
            \E j \in DOMAIN ret[2].rows :
                ret[2].rows[j]["PATIENT"] = ret[1].rows[i]["PATIENT"]

\* a call that dropped a patient with a status but no slide and kept another one
C2_Witness ==
    /\ Returned
    /\ run = 1
    /\ Len0(ret[1]) > 0
    /\ SlidelessRows(clinical_table, slide_table) # {}

\* C3: every row of the returned Patient table has a non-missing isMSIH.
C3_StatusKnown ==
    Returned => \A i \in DOMAIN ret[1].rows : ret[1].rows[i]["isMSIH"] # NA

\* a call whose input had a patient with a missing status and one with a status
C3_Witness ==
    /\ Returned
    /\ run = 1
    /\ Len0(ret[1]) > 0
    /\ MissingStatusRows(clinical_table) # {}

\* The lines printed by the call in progress (or by the last call).
CallStart ==
    CHOOSE i \in DOMAIN out :
        /\ out[i].msg = MsgCleaning
        /\ \A k \in DOMAIN out : out[k].msg = MsgCleaning => k <= i

CallLines ==
    IF \E i \in DOMAIN out : out[i].msg = MsgCleaning
    THEN SubSeq(out, CallStart, Len(out))
    ELSE <<>>

\* The count printed with msg by the call, 0 when the line was not printed.
Printed(msg) ==
    IF \E i \in DOMAIN CallLines : CallLines[i].msg = msg
    THEN CallLines[CHOOSE i \in DOMAIN CallLines : CallLines[i].msg = msg].a
    ELSE 0

RemovalMsgs == {MsgMissingStatus, MsgOrphanSlides, MsgNoSlides}

\* C4: clean_tables applied to the pair it returned removes no row in any of
\* the three filter steps and returns tables identical to its input.
C4_Idempotent ==
    run = 2 =>
        /\ pc # "raised"
        /\ dropped_clinical = 0
        /\ dropped_slides = 0
        /\ pc # "copy" => \A i \in DOMAIN CallLines : CallLines[i].msg \notin RemovalMsgs
        /\ Returned => ret = <<clinical_table, slide_table>>

\* the second call has returned a non-empty pair after a first call that
\* removed rows
C4_Witness ==
    /\ run = 2
    /\ Returned
    /\ Len0(ret[1]) > 0
    /\ \E i \in DOMAIN out : out[i].msg \in RemovalMsgs

AfterStep1 == pc \in {"step2", "step3", "step4"}
AfterStep3 == pc \in {"step4", "step5", "step6", "returned"}
AfterStep4 == pc \in {"step5", "step6", "returned"}

ScenarioInput == clinical_table = ScenarioClinical /\ slide_table = ScenarioSlides

\* C5: the three removal counts are the number of input Patient rows with a
\* missing isMSIH, the number of input Slide rows whose PATIENT is no id of a
\* Patient row with a status, and the number of Patient rows with a status
\* that no surviving Slide row references; per table, input rows = output
\* rows + rows counted as removed; on the end-to-end scenario the output
\* patients are {P1, P2} and the counts are 1, 1, 0.
C5_RemovalCounts ==
    /\ AfterStep1 =>
           dropped_clinical = Cardinality(MissingStatusRows(clinical_table))
    /\ AfterStep3 =>
           dropped_slides = Cardinality(OrphanSlideRows(clinical_table, slide_table))
    /\ AfterStep4 =>
           dropped_clinical = Cardinality(SlidelessRows(clinical_table, slide_table))
    /\ Returned =>
           /\ Printed(MsgMissingStatus) = Cardinality(MissingStatusRows(clinical_table))
           /\ Len0(clinical_table) =
                  Len0(ret[1]) + Printed(MsgMissingStatus) + dropped_clinical
           /\ Len0(slide_table) = Len0(ret[2]) + dropped_slides
    /\ (Returned /\ ScenarioInput) =>
           /\ unique(ret[1], "PATIENT") = {"P1", "P2"}
           /\ Len0(ret[1]) = 2
           /\ Printed(MsgMissingStatus) = 1
           /\ dropped_slides = 1
           /\ dropped_clinical = 0

\* the end-to-end scenario has been reconciled
C5_Witness == Returned /\ ScenarioInput

\* C6: a Patient row with a status and no slide surviving step 3 is removed
\* in the last filter step and counted in the third removal count; that step
\* uses the ids of the slides that survived step 3.
C6_SlidelessPatientDropped ==
    AfterStep4 =>
        /\ patients_with_slides = SurvivingSlideIds(clinical_table, slide_table)
        /\ \A i \in SlidelessRows(clinical_table, slide_table) :
               \A k \in DOMAIN clinical.rows :
                   clinical.rows[k]["PATIENT"] # clinical_table.rows[i]["PATIENT"]
        /\ Printed(MsgNoSlides) = Cardinality(SlidelessRows(clinical_table, slide_table))

\* a patient with a status lost for want of a slide, in a call that also
\* dropped an orphan slide
C6_Witness ==
    /\ Returned
    /\ run = 1
    /\ SlidelessRows(clinical_table, slide_table) # {}
    /\ OrphanSlideRows(clinical_table, slide_table) # {}

\* The reordered procedure of C7: orphan slides are dropped first, against
\* the ids of the unfiltered Patient table, then the patients with a missing
\* status, then the patients without a slide.
ReorderedClean(c, s) ==
    LET s1 == DataFrame(s.cols,
                        SelectSeq(s.rows, LAMBDA r :
                            \E i \in DOMAIN c.rows : c.rows[i]["PATIENT"] = r["PATIENT"]))
        c1 == DataFrame(c.cols, SelectSeq(c.rows, LAMBDA r : r["isMSIH"] # NA))
        c2 == DataFrame(c.cols,
                        SelectSeq(c1.rows, LAMBDA r :
                            \E j \in DOMAIN s1.rows : s1.rows[j]["PATIENT"] = r["PATIENT"]))
    IN <<c2, s1>>

\* Slides of a patient that is in the Patient table with a missing status only.
MissingStatusSlides(c, s) ==
    {j \in DOMAIN s.rows :
        /\ \E i \in DOMAIN c.rows : c.rows[i]["PATIENT"] = s.rows[j]["PATIENT"]
        /\ s.rows[j]["PATIENT"] \notin KnownStatusIds(c)}

\* C7: a slide whose patient has a missing isMSIH is removed by clean_tables,
\* and on every input with such a slide the reordered procedure returns
\* different tables.
C7_StepOrderObservable ==
    Returned =>
        /\ \A j \in MissingStatusSlides(clinical_table, slide_table) :
               \A k \in DOMAIN ret[2].rows :
                   ret[2].rows[k]["PATIENT"] # slide_table.rows[j]["PATIENT"]
        /\ MissingStatusSlides(clinical_table, slide_table) # {} =>
               ReorderedClean(clinical_table, slide_table) # ret

\* an input with a slide of a missing-status patient next to a slide that is kept
C7_Witness ==
    /\ Returned
    /\ run = 1
    /\ MissingStatusSlides(clinical_table, slide_table) # {}
    /\ Len0(ret[2]) > 0

\* a is b with some rows removed: same columns, the rows of a are rows of b
\* in the same relative order, each taken once.
RowsOnlyRemoved(a, b) ==
    /\ a.cols = b.cols
    /\ \E f \in [DOMAIN a.rows -> DOMAIN b.rows] :
           /\ \A i, j \in DOMAIN a.rows : i < j => f[i] < f[j]
           /\ \A i \in DOMAIN a.rows : a.rows[i] = b.rows[f[i]]

\* C8: within a call the argument tables are never modified, and each
\* returned table is the argument table with rows removed, nothing else.
C8_OnlyRemovesRows ==
    [][pc \notin {"idle", "returned"} =>
          /\ clinical_table' = clinical_table
          /\ slide_table' = slide_table
          /\ pc' = "returned" =>
                 /\ RowsOnlyRemoved(ret'[1], clinical_table)
                 /\ RowsOnlyRemoved(ret'[2], slide_table)]_vars

\* a call that removed some rows of each table and kept others
C8_Witness ==
    /\ Returned
    /\ run = 1
    /\ Len0(ret[1]) > 0
    /\ Len0(ret[1]) < Len0(clinical_table)
    /\ Len0(ret[2]) > 0
    /\ Len0(ret[2]) < Len0(slide_table)

\* The columns clean_tables reads: a table without one of them raises KeyError.
AccessedColumnMissing ==
    \/ "isMSIH" \notin clinical_table.cols
    \/ "PATIENT" \notin clinical_table.cols
    \/ "PATIENT" \notin slide_table.cols

RequiredColumnMissing ==
    \/ AccessedColumnMissing
    \/ "FILENAME" \notin slide_table.cols

\* C9: a Patient table without isMSIH or PATIENT, or a Slide table without
\* PATIENT or FILENAME, makes clean_tables end with an error and return no
\* tables; an input with all required columns in which no row matches
\* returns normally, with empty tables.
C9_MissingColumnIsFatal ==
    /\ RequiredColumnMissing => (pc # "returned" /\ ret = <<>>)
    /\ ~RequiredColumnMissing => pc # "raised"
    /\ (Returned /\ SurvivingSlideIds(clinical_table, slide_table) = {}) =>
           (Len0(ret[1]) = 0 /\ Len0(ret[2]) = 0)

\* What the code does: only the three columns it reads are fatal when missing.
AccessedColumnsAreFatal ==
    /\ AccessedColumnMissing => (pc # "returned" /\ ret = <<>>)
    /\ ~AccessedColumnMissing => pc # "raised"
    /\ (Returned /\ SurvivingSlideIds(clinical_table, slide_table) = {}) =>
           (Len0(ret[1]) = 0 /\ Len0(ret[2]) = 0)

\* C10: if clean_tables aborts in a run of the pipeline, no table file has
\* been written at the moment of the abort.
C10_NoFileWrittenAtAbort ==
    (main_pc = "clean" /\ pc = "raised") => files = {}

\* In the pipeline clean_tables never aborts: the tables it is given are
\* built by create_cinical_table and create_slide_table with all the columns
\* it reads.
MainCleanNeverRaises ==
    main_pc # "direct" =>
        /\ pc # "raised"
        /\ main_pc = "clean" =>
               /\ {"PATIENT", "isMSIH"} \subseteq clinical_table.cols
               /\ {"PATIENT", "FILENAME"} \subseteq slide_table.cols

\* Whenever clean_tables runs in the pipeline, both full tables are on disk.
FullTablesWrittenBeforeClean ==
    (main_pc = "clean" /\ pc # "idle") =>
        {"clini_table_full.csv", "slide_table_full.csv"} \subseteq files

\* The removal lines of the call, in the order they were printed.
IsRemovalLine(l) == l.msg \in RemovalMsgs

RemovalLines == SelectSeq(CallLines, IsRemovalLine)

IsDistributionLine(l) == l.msg \in Statuses \ {NA}

DistributionPrinted == SelectSeq(CallLines, IsDistributionLine)

\* The three removal counts of the call, from its input tables.
RemovalCounts ==
    <<Cardinality(MissingStatusRows(clinical_table)),
      Cardinality(OrphanSlideRows(clinical_table, slide_table)),
      Cardinality(SlidelessRows(clinical_table, slide_table))>>

RemovalOrder == <<MsgMissingStatus, MsgOrphanSlides, MsgNoSlides>>

AllRemovalLines == [k \in 1..3 |-> Line(RemovalOrder[k], RemovalCounts[k], 0)]

IsNonZeroLine(l) == l.a > 0

Called == ff # <<>>

\* The base name of a slide file name as the lookup contract words it: the
\* directory prefix and the final extension removed.
PlainBase(slide_filename) ==
    IF Len(slide_filename.name) >= 2
    THEN SubSeq(slide_filename.name, 1, Len(slide_filename.name) - 1)
    ELSE slide_filename.name

ExpectedFile == PlainBase(ff.slide_filename) \o <<"h5">>

\* The entries of the called site's feature root, as os.listdir yields them.
CalledListing == fs[ff.site].listing

IsCandidate(e) ==
    e.isdir /\ (Contains(e.name, "ctranspath") \/ Contains(e.name, "xiyuewang"))

\* Positions in the listing of the candidate directories, and of those that
\* hold the expected file.
Candidates == {i \in DOMAIN CalledListing : IsCandidate(CalledListing[i])}

Holders == {i \in Candidates : ExpectedFile \in CalledListing[i].files}

PathIn(i) == <<ff.site, "features", CalledListing[i].name, ExpectedFile>>

\* C12: when <base>.h5 exists in a candidate sub-directory of the site's
\* feature root, the call returns the path of <base>.h5 in a candidate
\* sub-directory that holds it; a file name with the same base and another
\* directory prefix or final extension gets the same result.
C12_HitFound ==
    Called =>
        /\ Holders # {} =>
               /\ ~ff.ret.raised
               /\ \E i \in Holders : ff.ret.value = PathIn(i)
        /\ \A g \in SlideFilenames :
               PlainBase(g) = PlainBase(ff.slide_filename) =>
                   find_feature_file(g, ff.site, fs) = ff.ret

\* a hit for a file name given with a directory prefix and the extension tif
C12_Witness ==
    /\ Called
    /\ Holders # {}
    /\ ff.slide_filename = Str("/data/slides", <<"s1", "tif">>)
    /\ ~ff.ret.raised
    /\ ff.ret.value # None

\* C13: the call never raises, and it returns None when the site's feature
\* root does not exist, when the root has no candidate sub-directory and when
\* no candidate sub-directory holds <base>.h5.
C13_MissNeverRaises ==
    Called =>
        /\ ~ff.ret.raised
        /\ (fs[ff.site].kind = "absent" \/ Candidates = {} \/ Holders = {}) =>
               ff.ret.value = None

\* What the code does on a miss: None, except that a feature root that
\* exists and is no directory makes os.listdir raise.
MissRaisesOnlyOnFileRoot ==
    Called =>
        /\ ff.ret.raised <=> fs[ff.site].kind = "file"
        /\ (~ff.ret.raised /\ Holders = {}) => ff.ret.value = None

\* C14: when several candidate sub-directories hold <base>.h5, the call
\* returns the file in the one that comes first in the directory listing, and
\* the same call made again on the same tree returns the same path.
C14_FirstInListingOrder ==
    Called =>
        /\ Holders # {} =>
               \E i \in Holders :
                   /\ \A j \in Holders : i <= j
                   /\ ff.ret = Returns(PathIn(i))
        /\ ff.calls = 2 => ff.ret = ff.first

\* two candidate sub-directories hold the file and the call was made twice
C14_Witness ==
    /\ Called
    /\ Cardinality(Holders) >= 2
    /\ ff.calls = 2
    /\ ff.ret.value # None

\* C15: a returned path lies directly inside an entry of the feature root of
\* the site that was asked for, and that entry is a directory whose name
\* contains 'ctranspath' or 'xiyuewang'.
C15_OnlyCandidateDirs ==
    (Called /\ ff.ret.value # None) =>
        /\ Len(ff.ret.value) = Len(site_path(ff.site)) + 2
        /\ SubSeq(ff.ret.value, 1, 2) = <<ff.site, "features">>
        /\ \E i \in Candidates :
               /\ CalledListing[i].name = ff.ret.value[3]
               /\ ff.ret.value[4] \in CalledListing[i].files

\* the file is held by a directory that is no candidate, listed first, and by
\* a candidate listed after it
C15_Witness ==
    /\ Called
    /\ ff.ret.value # None
    /\ \E i \in DOMAIN CalledListing :
           /\ i \notin Candidates
           /\ ExpectedFile \in CalledListing[i].files
           /\ \A j \in Holders : i < j

\* ------------------------------------------ properties of add_feature_paths
\* The rows of the input that have a file name and a site to look up.
HasLookup(row) == row["FILENAME"].type = "str" /\ row["SITE"] # NA

\* The table returned is the input with the column FEATURE_PATH, the found
\* path or None in it, and the two counts printed add up to the rows.
AfpResultAsClaimed ==
    Returned =>
        /\ ret.cols = slide_table.cols \cup {"FEATURE_PATH"}
        /\ Len0(ret) = Len0(slide_table)
        /\ \A i \in DOMAIN ret.rows :
               /\ \A c \in slide_table.cols : ret.rows[i][c] = slide_table.rows[i][c]
               /\ ret.rows[i]["FEATURE_PATH"] =
                      IF HasLookup(slide_table.rows[i])
                      THEN find_feature_file(slide_table.rows[i]["FILENAME"],
                                             slide_table.rows[i]["SITE"], fs).value
                      ELSE None
        /\ out[1].msg = MsgFeatures
        /\ out[1].a + out[1].b = Len0(slide_table)
        /\ out[1].a =
               Cardinality({i \in DOMAIN ret.rows : ret.rows[i]["FEATURE_PATH"] # None})

\* C16: add_feature_paths never raises on a slide table with the columns
\* FILENAME and SITE: it returns the same rows in the same order with the
\* column FEATURE_PATH added, the path found by find_feature_file or None in
\* it, None for a row with a missing FILENAME or SITE, and the found and
\* not-found counts it prints add up to the number of rows.
C16_EveryMissIsData ==
    /\ pc # "raised"
    /\ AfpResultAsClaimed

\* What the code does: the call raises exactly when a row that is looked up
\* names a site whose feature root exists and is no directory.
AfpRaisesOnlyOnFileRoot ==
    pc = "raised" =>
        /\ HasLookup(slide_table.rows[idx])
        /\ fs[slide_table.rows[idx]["SITE"]].kind = "file"

\* How often os.listdir was called on the feature root of a site.
ListdirCalls(site) ==
    Cardinality({i \in DOMAIN listdir_log : listdir_log[i] = site})

\* C17: during one call of add_feature_paths the feature root of a site is
\* listed at most once, however many rows name that site.
C17_RootListedOncePerSite ==
    \A site \in FsSites : ListdirCalls(site) <= 1

\* What the code does: one listing for every row that is looked up at a site
\* whose feature root exists.
ListedOncePerRow ==
    Returned =>
        \A site \in FsSites :
            ListdirCalls(site) =
                Cardinality({i \in DOMAIN slide_table.rows :
                                /\ HasLookup(slide_table.rows[i])
                                /\ slide_table.rows[i]["SITE"] = site
                                /\ fs[site].kind # "absent"})

\* --------------------------------------- properties of split_tables_by_site
HasSiteColumn == "SITE" \in slide_table.cols

\* The dictionary split_tables_by_site returned.
Partitions == ret[1]

Count(rows, r) == Cardinality({i \in DOMAIN rows : rows[i] = r})

\* Every row of the input Slide table is in the Slide table of exactly one
\* site, as often as in the input, and the partitions hold no other row.
PartitionComplete ==
    /\ \A i \in DOMAIN slide_table.rows :
           \E v \in DOMAIN Partitions :
               /\ Count(Partitions[v][2].rows, slide_table.rows[i]) =
                      Count(slide_table.rows, slide_table.rows[i])
               /\ \A w \in DOMAIN Partitions \ {v} :
                      Count(Partitions[w][2].rows, slide_table.rows[i]) = 0
    /\ \A v \in DOMAIN Partitions :
           \A k \in DOMAIN Partitions[v][2].rows :
               Count(slide_table.rows, Partitions[v][2].rows[k]) > 0

\* C18: on a Slide table with a SITE column, the site of a row possibly
\* missing, split_tables_by_site returns normally and every row of the Slide
\* table is in exactly one site partition, the partitions holding no other
\* row.
C18_PartitionComplete ==
    HasSiteColumn =>
        /\ pc # "raised"
        /\ Returned => PartitionComplete

\* What the code does: it raises exactly when the site of a row is missing,
\* and the partitions it returns otherwise are complete.
SplitRaisesOnMissingSite ==
    /\ pc # "split_sites" =>
           (pc = "raised" <=>
               (HasSiteColumn /\ \E i \in DOMAIN slide_table.rows :
                                     slide_table.rows[i]["SITE"] = NA))
    /\ (Returned /\ HasSiteColumn) => PartitionComplete

\* The site values of the input Slide table.
SitesPresent == {slide_table.rows[i]["SITE"] : i \in DOMAIN slide_table.rows}

\* C19: the dictionary returned has exactly one entry for each site value of
\* the Slide table and none for another site; the Slide table of the entry
\* of v is the rows of the input with SITE = v, its Patient table the rows of
\* the input Patient table whose PATIENT is in those Slide rows.
C19_OneEntryPerSite ==
    (Returned /\ HasSiteColumn) =>
        /\ DOMAIN Partitions = SitesPresent
        /\ \A v \in SitesPresent :
               /\ Partitions[v][2].rows =
                      SelectSeq(slide_table.rows, LAMBDA r : r["SITE"] = v)
               /\ Partitions[v][1].rows =
                      SelectSeq(clinical_table.rows,
                                LAMBDA p : \E i \in DOMAIN slide_table.rows :
                                               /\ slide_table.rows[i]["SITE"] = v
                                               /\ slide_table.rows[i]["PATIENT"] = p["PATIENT"])
               /\ Partitions[v][1].cols = clinical_table.cols
               /\ Partitions[v][2].cols = slide_table.cols

\* two sites, and a patient of the Patient table with no slide at one of them
C19_Witness ==
    /\ Returned
    /\ HasSiteColumn
    /\ SitesPresent = {"siteA", "siteB"}
    /\ \E v \in SitesPresent :
           Len0(Partitions[v][1]) < Len0(clinical_table)

\* The sites of the slides of a patient.
SitesOf(patient) ==
    {slide_table.rows[i]["SITE"] :
        i \in {j \in DOMAIN slide_table.rows : slide_table.rows[j]["PATIENT"] = patient}}

\* C20: a patient is in the Patient table of exactly the partitions of the
\* sites of the patient's slides, and a slide is in the partition of its own
\* site only.
C20_PatientInEachOfItsSites ==
    (Returned /\ HasSiteColumn) =>
        /\ \A i \in DOMAIN clinical_table.rows :
               {v \in DOMAIN Partitions :
                    \E k \in DOMAIN Partitions[v][1].rows :
                        Partitions[v][1].rows[k]["PATIENT"] =
                            clinical_table.rows[i]["PATIENT"]}
                 = SitesOf(clinical_table.rows[i]["PATIENT"])
        /\ \A v \in DOMAIN Partitions :
               \A k \in DOMAIN Partitions[v][2].rows :
                   Partitions[v][2].rows[k]["SITE"] = v

\* a patient with one slide at each of two sites
C20_Witness ==
    /\ Returned
    /\ HasSiteColumn
    /\ \E i \in DOMAIN clinical_table.rows :
           SitesOf(clinical_table.rows[i]["PATIENT"]) = {"siteA", "siteB"}

\* --------------------------------------------- properties of the pipeline
AfterClean == main_pc \in {"histograms", "split", "done"}

\* C21: after create_cinical_table and clean_tables no two rows of the
\* Patient table have the same PATIENT, whatever the raw survey rows are.
C21_PatientIdUnique ==
    AfterClean =>
        \A i, j \in DOMAIN clinical_table.rows :
            i # j => clinical_table.rows[i]["PATIENT"] # clinical_table.rows[j]["PATIENT"]

\* C24: when the REDCap request answers with a status other than 200 the
\* run is over: no second request is made, the pipeline has stopped, and no
\* table file has been written.
C24_FailedFetchAborts ==
    (requests # <<>> /\ requests[1] # 200) =>
        /\ Len(requests) = 1
        /\ main_pc = "aborted"
        /\ files = {}
        /\ pc = "idle"

\* the request was answered with status 500
C24_Witness ==
    /\ requests = <<500>>
    /\ main_pc = "aborted"

\* A request answered with 200 is the only way past the fetch.
FetchedOnlyOn200 ==
    main_pc \notin {"fetch", "aborted"} => requests = <<200>>

\* C27: every row of the cleaned Slide table the pipeline writes
\* (slide_table.csv) has a PATIENT and a FILENAME, also when slides are not
\* found on disk.
C27_CleanedSlidesComplete ==
    "slide_table.csv" \in files =>
        \A i \in DOMAIN slide_table.rows :
            /\ slide_table.rows[i]["PATIENT"] # NA
            /\ slide_table.rows[i]["FILENAME"] # NA

\* What the code does: PATIENT is never missing in slide_table.csv, and
\* FILENAME is the path of a file found on disk or missing.
CleanedSlidesHavePatient ==
    "slide_table.csv" \in files =>
        \A i \in DOMAIN slide_table.rows :
            /\ slide_table.rows[i]["PATIENT"] # NA
            /\ slide_table.rows[i]["FILENAME"] \in {AbsPath(f) : f \in DiskFiles} \cup {NA}

TableFiles ==
    {"clini_table_full.csv", "slide_table_full.csv", "slide_table.csv", "clini_table.csv"}

\* C29: with a Slide table without SITE column generate_histograms saves no
\* chart, split_tables_by_site returns an empty dictionary and an empty list
\* of sites and does not raise, and the pipeline ends with the full and the
\* cleaned tables written and no table of a site.
C29_NoSiteColumnNoSiteTables ==
    (main_pc \in {"split", "done"} /\ "SITE" \notin slide_table.cols) =>
        /\ files = TableFiles
        /\ pc \in {"idle", "split_sites", "returned"}
        /\ pc = "returned" => ret = << <<>>, <<>> >>
        /\ merged_data = <<>>

\* the pipeline has ended on a Slide table with rows and without SITE column
C29_Witness ==
    /\ main_pc = "done"
    /\ "SITE" \notin slide_table.cols
    /\ Len0(slide_table) > 0
    /\ ret = << <<>>, <<>> >>

\* --------------------------------------------- the reporting functions
\* The tables the reporting functions are called with.
ReportClinicalInputs ==
    {DataFrame({"PATIENT", "isMSIH"}, rows) :
        rows \in {<<>>, <<[PATIENT |-> "P1", isMSIH |-> "MSI-H"]>>}}

ReportSlideRows ==
    {[PATIENT |-> "P1", FILENAME |-> Str("/data/slides", <<"s1", "svs">>), SITE |-> "siteA"],
     [PATIENT |-> "P1", FILENAME |-> Str("/data/slides", <<"s1", "svs">>), SITE |-> "siteB"],
     [PATIENT |-> "P1", FILENAME |-> NaNFilename, SITE |-> "siteA"]}

ReportSlideInputs ==
    {DataFrame({"PATIENT", "FILENAME"},
               <<[PATIENT |-> "P1", FILENAME |-> Str("/data/slides", <<"s1", "svs">>)]>>)}
    \cup {DataFrame(AfpColumns, rows) : rows \in SeqsUpTo(ReportSlideRows, MaxSlides)}

AfterMerge_Aliased(argument, merged) == merged

\* line 108: pd.merge returns a new frame, so the assignments to merged_data
\* (lines 111, 151) leave the frame passed as argument as it was
AfterMerge(argument, merged) == argument

\* line 111: merged_data['processed'] = False
WithProcessed(t) ==
    DataFrame(t.cols \cup {"processed"},
              [i \in DOMAIN t.rows |->
                  [c \in t.cols \cup {"processed"} |->
                      IF c = "processed" THEN FALSE ELSE t.rows[i][c]]])

\* lines 125-129: the first entry of os.listdir that is a candidate directory
HasFeatureDir(site, f) ==
    /\ exists_site_path(site, f)
    /\ feature_dirs(f[site]) # <<>>

FirstFeatureDir(site, f) == feature_dirs(f[site])[1]

\* line 139: pd.isna(filename) or not isinstance(filename, str)
GphSkipsRow(row) ==
    \/ row["FILENAME"] = NaNFilename
    \/ row["FILENAME"].type # "str"

\* lines 142-152: is the .h5 file of the row in the directory kept for its site
Processed(row, dirs) ==
    /\ ~GphSkipsRow(row)
    /\ row["SITE"] \in DOMAIN dirs
    /\ h5_name(splitext(basename(row["FILENAME"]))) \in dirs[row["SITE"]].files

\* line 118: merged_data['SITE'].unique()
GphSites(merged) == {merged.rows[i]["SITE"] : i \in DOMAIN merged.rows}

\* os.path.join (line 119) raises TypeError on a missing site, os.listdir
\* (line 122) NotADirectoryError on a root that is a regular file
GphSiteRaises(merged, f) ==
    \/ NA \in GphSites(merged)
    \/ \E x \in GphSites(merged) : f[x].kind = "file"

\* lines 117-129: feature_dirs, one directory for each site that has one
GphDirs(merged, f) ==
    [site \in {x \in GphSites(merged) : HasFeatureDir(x, f)} |-> FirstFeatureDir(site, f)]

\* lines 137-153: the loop over the rows
GphMarked(merged, dirs) ==
    [merged EXCEPT !.rows =
        [i \in DOMAIN merged.rows |->
            [merged.rows[i] EXCEPT !["processed"] = Processed(merged.rows[i], dirs)]]]

\* line 237: the heat maps show the sites with at least 5 slides
MinPopularSlides == 5

PopularSites(t) ==
    {site \in {t.rows[i]["SITE"] : i \in DOMAIN t.rows} :
        Cardinality({i \in DOMAIN t.rows :
                        /\ t.rows[i]["SITE"] = site
                        /\ t.rows[i]["FILENAME"] # NaNFilename}) >= MinPopularSlides}

GphMissingSlides == "2/missing_slides.csv"

\* line 203: the chart saved before the first heat map (line 273)
GphFirstChart == "2/processing_status_by_site.png"

\* lines 279-386: the other files of generate_processing_histograms
GphLaterFiles ==
    {"2/processing_heatmap_slides.png", "2/processing_heatmap_patients.png",
     "2/patients_with_processed_slides.png",
     "2/missing_patient_processing_stats.csv", "2/missing_patients_by_site.csv"}

ReportInit == SplitInit

\* process.py line 309: generate_histograms is called
CallGenerateHistograms ==
    /\ pc = "idle"
    /\ main_pc = "direct"
    /\ clinical_table' \in ReportClinicalInputs
    /\ slide_table' \in ReportSlideInputs
    /\ main_pc' = "histograms"
    /\ UNCHANGED <<clinical, slides, valid_patients, patients_with_slides,
                   dropped_clinical, dropped_slides, out, ret, pc, run, files,
                   feature_vars, split_vars, report_vars>>

\* line 91: generate_processing_histograms is called on a tree under
\* features_base_dir
CallGph ==
    /\ pc = "idle"
    /\ main_pc = "direct"
    /\ clinical_table' \in ReportClinicalInputs
    /\ slide_table' \in ReportSlideInputs
    /\ fs' \in FsStates
    /\ pc' = "gph"
    /\ UNCHANGED <<clinical, slides, valid_patients, patients_with_slides,
                   dropped_clinical, dropped_slides, out, ret, run, main_pc, files,
                   ff, result, idx, feature_count, listdir_log, split_vars,
                   report_vars>>

\* lines 103-132: the merge and the feature directory of each site
GphFindDirs ==
    /\ pc = "gph"
    /\ IF NoSiteColumn(slide_table)
       THEN /\ ret' = None
            /\ pc' = "returned"
            /\ UNCHANGED <<slide_table, merged_data, ff>>
       ELSE LET merged == WithProcessed(pd_merge(slide_table, clinical_table))
                dirs == GphDirs(merged, fs)
            IN /\ slide_table' = AfterMerge(slide_table, merged)
               /\ merged_data' = merged
               /\ IF GphSiteRaises(merged, fs)
                  THEN /\ pc' = "raised"
                       /\ UNCHANGED <<ret, ff>>
                  ELSE IF DOMAIN dirs = {}
                  THEN /\ ret' = merged
                       /\ pc' = "returned"
                       /\ UNCHANGED ff
                  ELSE /\ ff' = dirs
                       /\ pc' = "gph_rows"
                       /\ UNCHANGED ret
    /\ UNCHANGED <<clinical_table, clinical, slides, valid_patients,
                   patients_with_slides, dropped_clinical, dropped_slides, out, run,
                   main_pc, files, fs, result, idx, feature_count, listdir_log,
                   split_vars, requests, redcap_data, tables2, msi_data>>

\* lines 137-427: the loop over the rows, the list of missing slides, the
\* charts.  A heat map of no site (none has 5 slides) is drawn or raises.
GphCheckSlides ==
    /\ pc = "gph_rows"
    /\ merged_data' = GphMarked(merged_data, ff)
    /\ slide_table' = AfterMerge(slide_table, merged_data')
    /\ \/ /\ files' = files \cup {GphMissingSlides, GphFirstChart} \cup GphLaterFiles
          /\ ret' = merged_data'
          /\ pc' = "returned"
       \/ /\ PopularSites(merged_data) = {}
          /\ files' = files \cup {GphMissingSlides, GphFirstChart}
          /\ pc' = "raised"
          /\ UNCHANGED ret
    /\ UNCHANGED <<clinical_table, clinical, slides, valid_patients,
                   patients_with_slides, dropped_clinical, dropped_slides, out, run,
                   main_pc, fs, ff, result, idx, feature_count, listdir_log,
                   split_vars, requests, redcap_data, tables2, msi_data>>

ReportNext ==
    \/ CallGenerateHistograms
    \/ MainHistograms
    \/ CallGph
    \/ GphFindDirs
    \/ GphCheckSlides

SpecReport == ReportInit /\ [][ReportNext]_vars

FeaturePathOf(row, f) ==
    IF SkipsRow(row) THEN None ELSE find_feature_file(row["FILENAME"], row["SITE"], f).value

\* C25: in the frame generate_processing_histograms returns a row is marked
\* processed exactly when find_feature_file finds a feature file for its
\* FILENAME and SITE, on every tree under features_base_dir.
C25_LookupsAgree ==
    (pc = "returned" /\ fs # <<>> /\ ret # None) =>
        \A i \in DOMAIN ret.rows :
            ret.rows[i]["processed"] <=> (FeaturePathOf(ret.rows[i], fs) # None)

\* What the code does: a processed row always has a feature file; a row is
\* not marked although it has one only when the file is in a candidate
\* directory that is not the first of its site.
ProcessedImpliesFeaturePath ==
    (pc = "returned" /\ fs # <<>> /\ ret # None) =>
        \A i \in DOMAIN ret.rows :
            LET row == ret.rows[i]
            IN /\ row["processed"] => FeaturePathOf(row, fs) # None
               /\ (~row["processed"] /\ FeaturePathOf(row, fs) # None) =>
                      Len(feature_dirs(fs[row["SITE"]])) >= 2

\* ------------------------------- the main block of 2.preprocess_eval.py
\* The slide rows of tables/0/slide_table.csv.
EvalSlideRows ==
    {[PATIENT |-> "P1", FILENAME |-> Str("/data/slides", <<"s1", "svs">>), SITE |-> "siteA"],
     [PATIENT |-> "P2", FILENAME |-> Str("/data/slides", <<"s2", "svs">>), SITE |-> "siteA"],
     [PATIENT |-> "P1", FILENAME |-> Str("/data/slides", <<"s1", "svs">>), SITE |-> "siteB"]}

EvalSlideInputs ==
    {DataFrame(AfpColumns, rows) : rows \in SeqsUpTo(EvalSlideRows, MaxSlides) \ {<<>>}}

\* tables/0/clinical_table.csv of a reconciled pair: the patients of the
\* slide table, each once and with a status
EvalClinicalOf(t) ==
    LET patients == unique_seq(t, "PATIENT")
    IN DataFrame({"PATIENT", "isMSIH"},
                 [k \in DOMAIN patients |-> [PATIENT |-> patients[k], isMSIH |-> "MSI-H"]])

\* lines 536-542, 556-562: dropna(subset=['FEATURE_PATH']), FILENAME replaced
\* by FEATURE_PATH, FEATURE_PATH dropped
FeaturesAsFilename(t) ==
    LET kept == SelectSeq(t.rows, LAMBDA r : r["FEATURE_PATH"] # None)
    IN DataFrame(t.cols \ {"FEATURE_PATH"},
                 [i \in DOMAIN kept |->
                     [c \in t.cols \ {"FEATURE_PATH"} |->
                         IF c = "FILENAME" THEN kept[i]["FEATURE_PATH"] ELSE kept[i][c]]])

EvalInit == FindInit

\* lines 489-519: the two tables are read and add_feature_paths is called
\* (lines 45-62)
EvalRead ==
    /\ pc = "idle"
    /\ main_pc = "direct"
    /\ \E t \in EvalSlideInputs :
          /\ slide_table' = t
          /\ clinical_table' = EvalClinicalOf(t)
          /\ result' = WithFeaturePath(t)
    /\ feature_count' = 0
    /\ idx' = 1
    /\ listdir_log' = <<>>
    /\ pc' = "afp_loop"
    /\ main_pc' = "eval_features"
    /\ UNCHANGED <<clinical, slides, valid_patients, patients_with_slides,
                   dropped_clinical, dropped_slides, out, ret, run, files, fs, ff,
                   split_vars, report_vars>>

\* lines 519-523: slide_table_with_features is bound to what add_feature_paths
\* returned and generate_processing_histograms (lines 91-427) runs on it;
\* from here on slide_table stands for slide_table_with_features
EvalHistograms ==
    /\ main_pc = "eval_features"
    /\ pc = "returned"
    /\ slide_table' = ret
    /\ pc' = "idle"
    /\ IF NoSiteColumn(ret)
       THEN /\ merged_data' = None
            /\ main_pc' = "eval_split"
            /\ UNCHANGED files
       ELSE LET merged == WithProcessed(pd_merge(ret, clinical_table))
                dirs == GphDirs(merged, fs)
            IN IF GphSiteRaises(merged, fs)
               THEN /\ main_pc' = "aborted"
                    /\ UNCHANGED <<merged_data, files>>
               ELSE IF DOMAIN dirs = {}
               THEN /\ merged_data' = merged
                    /\ main_pc' = "eval_split"
                    /\ UNCHANGED files
               ELSE /\ merged_data' = GphMarked(merged, dirs)
                    /\ \/ /\ files' = files \cup {GphMissingSlides, GphFirstChart}
                                          \cup GphLaterFiles
                          /\ main_pc' = "eval_split"
                       \/ /\ PopularSites(merged) = {}
                          /\ files' = files \cup {GphMissingSlides, GphFirstChart}
                          /\ main_pc' = "aborted"
    /\ UNCHANGED <<clinical_table, clinical, slides, valid_patients,
                   patients_with_slides, dropped_clinical, dropped_slides, out, ret,
                   run, feature_vars, split_vars, requests, redcap_data, tables2,
                   msi_data>>

\* line 527: split_tables_by_site(clinical_table, slide_table_with_features)
EvalCallSplit ==
    /\ main_pc = "eval_split"
    /\ pc = "idle"
    /\ pc' = "split_sites"
    /\ UNCHANGED <<clinical_table, slide_table, clinical, slides, valid_patients,
                   patients_with_slides, dropped_clinical, dropped_slides, out, ret,
                   run, main_pc, files, feature_vars, split_vars, report_vars>>

\* lines 531-567: the tables written to tables/2, by table and kind
EvalSave ==
    /\ main_pc = "eval_split"
    /\ pc = "returned"
    /\ LET site_tables == ret[1]
           keys == {<<"all", "clinical">>, <<"all", "slide">>}
                   \cup {<<site, kind>> : site \in DOMAIN site_tables,
                                          kind \in {"clinical", "slide"}}
       IN tables2' =
             [k \in keys |->
                 IF k = <<"all", "clinical">> THEN clinical_table
                 ELSE IF k = <<"all", "slide">> THEN FeaturesAsFilename(slide_table)
                 ELSE IF k[2] = "clinical" THEN site_tables[k[1]][1]
                 ELSE FeaturesAsFilename(site_tables[k[1]][2])]
    /\ main_pc' = "done"
    /\ UNCHANGED <<clinical_table, slide_table, clinical, slides, valid_patients,
                   patients_with_slides, dropped_clinical, dropped_slides, out, ret,
                   pc, run, files, feature_vars, split_vars, requests, redcap_data,
                   merged_data, msi_data>>

EvalNext ==
    \/ EvalRead
    \/ AfpRow
    \/ AfpFinish
    \/ EvalHistograms
    \/ EvalCallSplit
    \/ SplitFindSites
    \/ SplitSite
    \/ SplitReturn
    \/ EvalSave

SpecEval == EvalInit /\ [][EvalNext]_vars

PatientsOf(t) == {t.rows[i]["PATIENT"] : i \in DOMAIN t.rows}

\* C26: in each pair of tables written to tables/2, the combined pair and
\* the pair of each site, every patient of the clinical table has at least
\* one row in the slide table.
C26_WrittenPairsConsistent ==
    main_pc = "done" /\ tables2 # <<>> =>
        \A k \in DOMAIN tables2 :
            k[2] = "clinical" =>
                PatientsOf(tables2[k]) \subseteq PatientsOf(tables2[<<k[1], "slide">>])

\* What the code does: the slides written belong to patients written, and a
\* patient is written without slide only when none of the patient's slides
\* has a feature path.
WrittenSlidesHavePatient ==
    main_pc = "done" /\ tables2 # <<>> =>
        \A k \in DOMAIN tables2 :
            k[2] = "clinical" =>
                /\ PatientsOf(tables2[<<k[1], "slide">>]) \subseteq PatientsOf(tables2[k])
                /\ \A p \in PatientsOf(tables2[k]) \ PatientsOf(tables2[<<k[1], "slide">>]) :
                      \A i \in DOMAIN slide_table.rows :
                          (slide_table.rows[i]["PATIENT"] = p
                             /\ k[1] \in {"all", slide_table.rows[i]["SITE"]})
                              => slide_table.rows[i]["FEATURE_PATH"] = None

\* ------------------------------ collect_redcap.py, process_prospective
\* A string is the sequence of its characters.
MaxCellLen == 5

Chars == {"a", "s", "v", ".", ",", " "}

\* a cell without value, in a column of strings
NaNCell == <<NA>>

\* the slide_name cells of a survey row
SlideNameCells(n) == {NaNCell} \cup UNION {[1..k -> Chars] : k \in 0..n}

CollectColumns ==
    {"record_id", "batch_number", "r01_redcap_data_access_group", "r01_record_id",
     "cmo_msi_status", "slide_name"}

\* msi_data of one survey row
CollectInputs(n) ==
    {DataFrame(CollectColumns,
               <<[record_id |-> "7", batch_number |-> b,
                  r01_redcap_data_access_group |-> "siteA", r01_record_id |-> "7",
                  cmo_msi_status |-> "Instable", slide_name |-> cell]>>) :
        b \in {"1", "3"}, cell \in SlideNameCells(n)}

\* line 99: str.split(', '), the pieces between the occurrences of ', ' from
\* the left
RECURSIVE str_split(_)
str_split(cell) ==
    LET seps == {i \in 1..(Len(cell) - 1) : cell[i] = "," /\ cell[i + 1] = " "}
    IN IF seps = {}
       THEN <<cell>>
       ELSE LET i == CHOOSE x \in seps : \A y \in seps : x <= y
            IN <<SubSeq(cell, 1, i - 1)>> \o str_split(SubSeq(cell, i + 2, Len(cell)))

\* line 101: str.rstrip('.svs') removes trailing characters as long as they
\* are one of '.', 's', 'v'
RECURSIVE str_rstrip(_)
str_rstrip(name) ==
    IF Len(name) > 0 /\ name[Len(name)] \in {".", "s", "v"}
    THEN str_rstrip(SubSeq(name, 1, Len(name) - 1))
    ELSE name

\* lines 76-79
ProspectiveRows(t) ==
    SelectSeq(t.rows, LAMBDA r : r["batch_number"] # "1" /\ r["batch_number"] # "2")

\* line 80: dropna(axis=1, how='all') drops a column without any value, and
\* every column of a frame without rows
AllMissing(rows, col) ==
    \A i \in DOMAIN rows :
        rows[i][col] = (IF col = "slide_name" THEN NaNCell ELSE NA)

\* lines 98-105: split, explode, rstrip, rename; a missing cell stays one
\* row with a missing FILENAME
SlideRowsOf(r) ==
    LET names == IF r["slide_name"] = NaNCell THEN <<NaNCell>> ELSE str_split(r["slide_name"])
    IN [k \in DOMAIN names |->
           [patient_id |-> <<r["r01_redcap_data_access_group"], "_", r["r01_record_id"]>>,
            FILENAME |-> IF names[k] = NaNCell THEN NaNCell ELSE str_rstrip(names[k]),
            site |-> r["r01_redcap_data_access_group"]]]

RECURSIVE explode(_)
explode(rows) ==
    IF rows = <<>> THEN <<>> ELSE SlideRowsOf(Head(rows)) \o explode(Tail(rows))

ProspectiveInit == SplitInit

\* line 66: the call
CallProcessProspective ==
    /\ pc = "idle"
    /\ main_pc = "direct"
    /\ msi_data' \in CollectInputs(MaxCellLen)
    /\ pc' = "prospective"
    /\ UNCHANGED <<clinical_table, slide_table, clinical, slides, valid_patients,
                   patients_with_slides, dropped_clinical, dropped_slides, out, ret,
                   run, main_pc, files, feature_vars, split_vars, requests,
                   redcap_data, merged_data, tables2>>

\* lines 67-107; lines 82, 88 and 98 raise KeyError on a column that
\* dropna removed
ProcessProspective ==
    /\ pc = "prospective"
    /\ LET prospective == ProspectiveRows(msi_data)
       IN IF \E c \in {"r01_redcap_data_access_group", "r01_record_id",
                       "cmo_msi_status", "slide_name"} : AllMissing(prospective, c)
          THEN /\ pc' = "raised"
               /\ UNCHANGED ret
          ELSE /\ ret' = <<DataFrame({"patient_id", "isMSIH", "site"},
                                     [i \in DOMAIN prospective |->
                                         [patient_id |->
                                              <<prospective[i]["r01_redcap_data_access_group"],
                                                "_", prospective[i]["r01_record_id"]>>,
                                          isMSIH |-> MsiFromCmo(prospective[i]["cmo_msi_status"]),
                                          site |-> prospective[i]["r01_redcap_data_access_group"]]]),
                          DataFrame({"patient_id", "FILENAME", "site"}, explode(prospective))>>
               /\ pc' = "returned"
    /\ UNCHANGED <<clinical_table, slide_table, clinical, slides, valid_patients,
                   patients_with_slides, dropped_clinical, dropped_slides, out, run,
                   main_pc, files, feature_vars, split_vars, report_vars>>

ProspectiveNext == CallProcessProspective \/ ProcessProspective

SpecProspective == ProspectiveInit /\ [][ProspectiveNext]_vars

EndsWithSvs(name) ==
    /\ Len(name) >= 4
    /\ SubSeq(name, Len(name) - 3, Len(name)) = <<".", "s", "v", "s">>

\* the name without one '.svs' at its end
WithoutSvsSuffix(name) ==
    IF EndsWithSvs(name) THEN SubSeq(name, 1, Len(name) - 4) ELSE name

\* the names of a list: the parts between the separators ', '
RECURSIVE IsListed(_, _)
IsListed(cell, names) ==
    /\ names # <<>>
    /\ \A k \in DOMAIN names :
          \A i \in 1..(Len(names[k]) - 1) : ~(names[k][i] = "," /\ names[k][i + 1] = " ")
    /\ IF Len(names) = 1
       THEN cell = names[1]
       ELSE /\ Len(cell) >= Len(names[1]) + 2
            /\ SubSeq(cell, 1, Len(names[1]) + 2) = names[1] \o <<",", " ">>
            /\ IsListed(SubSeq(cell, Len(names[1]) + 3, Len(cell)), Tail(names))

\* C28: the Slide table process_prospective returns has one row for each
\* name of the ', '-separated slide_name list, and its FILENAME is the name
\* without one trailing '.svs', or the name itself when it has no such end.
C28_OneRowPerNameSvsRemoved ==
    (pc = "returned" /\ msi_data # <<>> /\ msi_data.rows[1]["slide_name"] # NaNCell) =>
        LET names == str_split(msi_data.rows[1]["slide_name"])
            slide_rows == ret[2].rows
        IN /\ Len(slide_rows) = Len(names)
           /\ \A k \in DOMAIN slide_rows :
                 slide_rows[k]["FILENAME"] = WithoutSvsSuffix(names[k])

\* What the code does: one row per name, and FILENAME is the name without
\* all the characters '.', 's' and 'v' at its end, which is the name without
\* '.svs' only when that does not end in one of the three.
RowPerNameCharsStripped ==
    (pc = "returned" /\ msi_data # <<>> /\ msi_data.rows[1]["slide_name"] # NaNCell) =>
        LET names == str_split(msi_data.rows[1]["slide_name"])
            slide_rows == ret[2].rows
        IN /\ Len(slide_rows) = Len(names)
           /\ IsListed(msi_data.rows[1]["slide_name"], names)
           /\ \A k \in DOMAIN slide_rows :
                 LET f == slide_rows[k]["FILENAME"]
                     w == WithoutSvsSuffix(names[k])
                 IN /\ f = str_rstrip(names[k])
                    /\ (f = w) <=> (w = <<>> \/ w[Len(w)] \notin {".", "s", "v"})

\* ------------------------------------------- create_cinical_table alone
\* The values a survey cell can hold: the coded values and one other value.
SurveyValues(c) ==
    CASE c = "record_id"      -> {"P1"}
      [] c = "batch_number"   -> {"1", "2", "3", NA}
      [] c = "cmo_msi_status" -> {"Instable", "Stable", "Indeterminate",
                                  "Stable, Indeterminate", "Unknown", NA}
      [] c = "msi_status_mmr" -> {"1", "2", "3", NA}
      [] c = "redcap_data_access_group" -> {"siteA"}

\* A row of batch 1 or 2 has any msi_status_mmr and a cmo_msi_status that is
\* empty or says the opposite; a row of another batch the other way round.
SurveyRows ==
    {r \in {[record_id |-> id, batch_number |-> b, cmo_msi_status |-> cmo,
             msi_status_mmr |-> mmr, redcap_data_access_group |-> g] :
                id \in SurveyValues("record_id"), b \in SurveyValues("batch_number"),
                cmo \in SurveyValues("cmo_msi_status"),
                mmr \in SurveyValues("msi_status_mmr"),
                g \in SurveyValues("redcap_data_access_group")} :
        IF r["batch_number"] \in {"1", "2"}
        THEN r["cmo_msi_status"] \in {"Instable", NA}
        ELSE r["msi_status_mmr"] \in {"1", NA}}

\* the frame fetch_redcap_data returns for k records: no record gives a
\* frame without columns
SurveyInputs(k) ==
    IF k = 0 THEN {EmptyFrame}
    ELSE {DataFrame(RedcapColumns, rs) : rs \in [1..k -> SurveyRows]}

ClinicalInit == SplitInit

\* line 39: the call
CallCreateClinical ==
    /\ pc = "idle"
    /\ \E k \in 0..MaxRecords : redcap_data' \in SurveyInputs(k)
    /\ pc' = "clinical"
    /\ UNCHANGED <<clinical_table, slide_table, clinical, slides, valid_patients,
                   patients_with_slides, dropped_clinical, dropped_slides, out, ret,
                   run, main_pc, files, feature_vars, split_vars>>
    /\ UNCHANGED <<requests, merged_data, tables2, msi_data>>

\* lines 46-83; line 50 raises KeyError on a frame without batch_number
CreateClinical ==
    /\ pc = "clinical"
    /\ IF "batch_number" \notin redcap_data.cols
       THEN /\ pc' = "raised"
            /\ UNCHANGED clinical_table
       ELSE /\ clinical_table' = create_cinical_table(redcap_data)
            /\ pc' = "returned"
    /\ UNCHANGED <<slide_table, clinical, slides, valid_patients,
                   patients_with_slides, dropped_clinical, dropped_slides, out, ret,
                   run, main_pc, files, feature_vars, split_vars, report_vars>>

ClinicalNext == CallCreateClinical \/ CreateClinical

SpecClinical == ClinicalInit /\ [][ClinicalNext]_vars

\* The record the survey row r stands for: the row's batch decides which
\* status field is read.
C22_Record(r) ==
    LET retrospective == r["batch_number"] \in {"1", "2"}
        status ==
            IF retrospective
            THEN IF r["msi_status_mmr"] = "1" THEN "MSI-H"
                 ELSE IF r["msi_status_mmr"] = "2" THEN "MSS" ELSE NA
            ELSE IF r["cmo_msi_status"] = "Instable" THEN "MSI-H"
                 ELSE IF r["cmo_msi_status"] \in
                            {"Stable", "Indeterminate", "Stable, Indeterminate"}
                      THEN "MSS" ELSE NA
    IN [PATIENT |-> r["record_id"], isMSIH |-> status,
        batch_number |-> r["batch_number"],
        redcap_data_access_group |-> r["redcap_data_access_group"]]

Occurrences(rows, x) == Cardinality({i \in DOMAIN rows : rows[i] = x})

\* C22: the table create_cinical_table returns has one record per survey row:
\* each record occurs as often as there are survey rows standing for it, with
\* isMSIH read from msi_status_mmr for batch '1' and '2' and from
\* cmo_msi_status for every other batch, and so always MSI-H, MSS or missing.
C22_OneRecordPerRow ==
    pc = "returned" /\ redcap_data # <<>> =>
        LET expected == [i \in DOMAIN redcap_data.rows |-> C22_Record(redcap_data.rows[i])]
        IN /\ Len0(clinical_table) = Len0(redcap_data)
           /\ \A i \in DOMAIN expected :
                 Occurrences(clinical_table.rows, expected[i]) = Occurrences(expected, expected[i])
           /\ \A i \in DOMAIN clinical_table.rows :
                 clinical_table.rows[i]["isMSIH"] \in {"MSI-H", "MSS", NA}

\* a retrospective row with a prospective status filled in and a row without
\* batch have been mapped
C22_Witness ==
    /\ pc = "returned"
    /\ redcap_data # <<>>
    /\ \E i, j \in DOMAIN redcap_data.rows :
          /\ redcap_data.rows[i]["batch_number"] = "2"
          /\ redcap_data.rows[i]["cmo_msi_status"] = "Instable"
          /\ redcap_data.rows[i]["msi_status_mmr"] = "2"
          /\ redcap_data.rows[j]["batch_number"] = NA
          /\ redcap_data.rows[j]["cmo_msi_status"] = "Stable, Indeterminate"
    /\ \E i \in DOMAIN clinical_table.rows : clinical_table.rows[i]["isMSIH"] = "MSS"

TypeOK ==
    /\ pc \in {"idle", "copy", "step1", "step2", "step3", "step4", "step5",
               "step6", "returned", "raised", "afp_loop", "split_sites",
               "split_loop"}
    /\ run \in {1, 2}
    /\ main_pc \in {"direct", "fetch", "halo", "verify", "clean", "histograms",
                    "split", "done", "aborted"}
    /\ files \subseteq {"clini_table_full.csv", "slide_table_full.csv",
                         "slide_table.csv", "clini_table.csv"}
                          \cup VisualizationFiles
                          \cup SiteTableFiles("siteA") \cup SiteTableFiles("siteB")
    /\ dropped_clinical \in 0..(MaxPatients + MaxRecords + 1)
    /\ dropped_slides \in 0..(MaxSlides + 1)
====
